---- MODULE Spec2Model ----
(***************************************************************************)
(* Grid search over the parameters of a river-level model                  *)
(* (src/GridSearchDSVientos.js): the coordinator's dispatch loop, the      *)
(* worker threads' chunk handler and the ResultWriter each worker owns.    *)
(*                                                                         *)
(* JavaScript numbers are records [t, n]: t = "num" carries the number in  *)
(* thousandths (n = 1500 is 1.5, n = 2000 is the count 2), t = "nan" is    *)
(* NaN, t = "inf" is +Infinity (n = 1) or -Infinity (n = -1) and           *)
(* t = "undef" is undefined (an absent field of an object).                *)
(* A line of a file is a sequence of atoms: the text of a value, the       *)
(* separator ";" or the line end "\n".                                     *)
(***************************************************************************)
EXTENDS Integers, Sequences, FiniteSets, TLC

\* ------------------------------------------------------------- bounds
\* CONFIG.maxWorkers is drawn from 1..MaxWorkers
MaxWorkers == 2
\* CONFIG.chunkSize is drawn from 1..MaxChunk
MaxChunk == 2
\* CONFIG.ranges.offset is a prefix of 0..MaxOffset entries of the list
MaxOffset == 4
\* number of streams Math.random() may produce
NumSeeds == 2
\* number of training data sets a run may be given
NumDataSets == 2
\* number of fields a record handed to ResultWriter.write may lack
MaxAbsent == 1
\* number of write() calls made on one ResultWriter
MaxWrites == 2
\* number of partial files the results directory may hold
MaxFiles == 2
\* number of lines a partial file given to the merger may hold
MaxLines == 2
\* number of times combineResults() is run on one directory
MaxRuns == 2
\* number of points a series given to RiverModel may hold
MaxPoints == 2
\* the times of the points are the hours 0..MaxTime
MaxTime == 2
\* the generator specification: the largest number of entries of a base list
MaxListLen == 2
\* the cadence specification: the largest chunkSize
MaxCadenceChunk == 3

\* ------------------------------------------------- CONFIG, scaled down
maxFileSize == 450
progressInterval == 2
checkpointInterval == 4
memoryCleanInterval == 4

\* ------------------------------------------------------ JavaScript values
\* the element of a set of one element: The({F(x) : x \in {e}}) is F(e),
\* with e evaluated once
The(S) == CHOOSE x \in S : TRUE

Num(n) == [t |-> "num", n |-> n]
NaN == [t |-> "nan", n |-> 0]
PosInf == [t |-> "inf", n |-> 1]
NegInf == [t |-> "inf", n |-> -1]
Undefined == [t |-> "undef", n |-> 0]

\* A finite number that toFixed(4) leaves with a fourth decimal is
\* [t |-> "num4", n |-> the number in ten-thousandths].
Fixed4(k) == IF k % 10 = 0 THEN Num(k \div 10) ELSE [t |-> "num4", n |-> k]

\* Number.isFinite(v)
IsFinite(v) == v.t \in {"num", "num4"}

\* a finite number in ten-thousandths
TenThousandths(v) == IF v.t = "num4" THEN v.n ELSE 10 * v.n

\* a + b on numbers and undefined (undefined converts to NaN)
JsAdd(a, b) ==
  IF a.t = "num" /\ b.t = "num" THEN Num(a.n + b.n)
  ELSE IF a.t = "inf" /\ b.t = "num" THEN a
  ELSE IF a.t = "num" /\ b.t = "inf" THEN b
  ELSE IF a.t = "inf" /\ b.t = "inf" /\ a.n = b.n THEN a
  ELSE NaN

\* v % m === 0 for a positive integer m
JsModIsZero(v, m) == v.t = "num" /\ v.n % (m * 1000) = 0

\* the decimal digits of the fraction f/1000, 0 < f < 1000, without trailing zeros
FracStr(f) ==
  IF f % 100 = 0 THEN ToString(f \div 100)
  ELSE IF f % 10 = 0
       THEN (IF f < 100 THEN "0" ELSE "") \o ToString(f \div 10)
       ELSE (IF f < 10 THEN "00" ELSE IF f < 100 THEN "0" ELSE "") \o ToString(f)

\* String(x) of a finite number x = n/1000
NumStr(n) ==
  LET a == IF n < 0 THEN 0 - n ELSE n
  IN  (IF n < 0 THEN "-" ELSE "") \o ToString(a \div 1000)
        \o (IF a % 1000 = 0 THEN "" ELSE "." \o FracStr(a % 1000))

\* String(x) of a finite number x = k/10000 that has a fourth decimal
NumStr4(k) ==
  LET a == IF k < 0 THEN 0 - k ELSE k
      f == a % 10000
  IN  (IF k < 0 THEN "-" ELSE "") \o ToString(a \div 10000) \o "."
        \o (IF f < 10 THEN "000" ELSE IF f < 100 THEN "00"
            ELSE IF f < 1000 THEN "0" ELSE "") \o ToString(f)

\* String(v)
JsString(v) ==
  CASE v.t = "num" -> NumStr(v.n)
    [] v.t = "num4" -> NumStr4(v.n)
    [] v.t = "nan" -> "NaN"
    [] v.t = "inf" -> IF v.n > 0 THEN "Infinity" ELSE "-Infinity"
    [] OTHER -> "undefined"

\* the text Array.prototype.join gives one element: undefined becomes ""
JoinItem(v) == IF v.t = "undef" THEN "" ELSE JsString(v)

\* items.join(';') for a sequence of texts
JoinSemi(items) ==
  [i \in 1..(IF items = <<>> THEN 0 ELSE 2 * Len(items) - 1) |->
     IF i % 2 = 1 THEN items[(i + 1) \div 2] ELSE ";"]

\* the text of the atoms lo..hi of s, concatenated
RECURSIVE TextOf(_, _, _)
TextOf(s, lo, hi) ==
  IF lo > hi THEN ""
  ELSE IF lo = hi THEN s[lo]
  ELSE LET mid == (lo + hi) \div 2
       IN  TextOf(s, lo, mid) \o TextOf(s, mid + 1, hi)

\* line.split(';'): the texts between the separators of the line
SplitSemi(s) ==
  LET seps == {i \in 1..Len(s) : s[i] = ";"}
      \* the position of separator number j; 0 and Len(s) + 1 bound the line
      sep(j) == IF j = 0 THEN 0
                ELSE IF j > Cardinality(seps) THEN Len(s) + 1
                ELSE CHOOSE i \in seps : Cardinality({x \in seps : x < i}) = j - 1
  IN  [j \in 1..(Cardinality(seps) + 1) |-> TextOf(s, sep(j - 1) + 1, sep(j) - 1)]

\* The data of a file is the sequence of its lines, each a sequence of atoms
\* that ends with "\n"; content.split('\n') gives the lines without their
\* line ends, and an empty text after the last one.
SplitLines(data) ==
  [i \in 1..(Len(data) + 1) |->
     IF i <= Len(data) THEN SubSeq(data[i], 1, Len(data[i]) - 1) ELSE <<>>]

\* the number of bytes of the atoms lo..hi of a line: the texts are ASCII
RECURSIVE LineBytes(_, _, _)
LineBytes(s, lo, hi) ==
  IF lo > hi THEN 0
  ELSE IF lo = hi THEN Len(s[lo])
  ELSE LET mid == (lo + hi) \div 2
       IN  LineBytes(s, lo, mid) + LineBytes(s, mid + 1, hi)

\* Buffer.byteLength(data)
RECURSIVE ByteLength(_)
ByteLength(data) ==
  IF data = <<>> THEN 0
  ELSE LineBytes(Head(data), 1, Len(Head(data))) + ByteLength(Tail(data))

\* ------------------------------------------------------------- columns
Dirs == <<"N", "NE", "E", "SE", "S", "SW", "W", "NW">>
BaseCols == <<"pesoPalmas", "pesoItu", "pesoBa", "pesoVientos",
              "lagPalmas", "lagItu", "lagBa", "lagVientos",
              "factorViento", "offset">>
FactorCol(d) == "coef_" \o d \o "_factor"
PesoCol(d) == "coef_" \o d \o "_peso"
CoefCols == [i \in 1..16 |-> IF i % 2 = 1 THEN FactorCol(Dirs[(i + 1) \div 2])
                                          ELSE PesoCol(Dirs[i \div 2])]
MetricCols == <<"trainR2", "testR2", "trainRmse", "testRmse">>
Range(s) == {s[i] : i \in DOMAIN s}

\* ResultWriter.header, before the join
HeaderCols == BaseCols \o CoefCols \o MetricCols
\* the columns of a parameter set
ParamCols == Range(BaseCols) \cup Range(CoefCols)
AllCols == ParamCols \cup Range(MetricCols)

\* ------------------------------------------------------- ResultWriter
\* the columns of a row in the order write() lists them
RowCols == <<"pesoPalmas", "pesoItu", "pesoBa", "pesoVientos",
             "lagPalmas", "lagItu", "lagBa", "lagVientos",
             "factorViento", "offset",
             "coef_N_factor", "coef_N_peso", "coef_NE_factor", "coef_NE_peso",
             "coef_E_factor", "coef_E_peso", "coef_SE_factor", "coef_SE_peso",
             "coef_S_factor", "coef_S_peso", "coef_SW_factor", "coef_SW_peso",
             "coef_W_factor", "coef_W_peso", "coef_NW_factor", "coef_NW_peso",
             "trainR2", "testR2", "trainRmse", "testRmse">>

\* the value write() gives a column the record lacks
ColumnDefault(col) ==
  IF col \in Range(BaseCols) THEN Num(0)
  ELSE IF col \in {FactorCol(Dirs[i]) : i \in DOMAIN Dirs} THEN Num(0)
  ELSE IF col \in {PesoCol(Dirs[i]) : i \in DOMAIN Dirs} THEN Num(500)
  ELSE IF col \in {"trainR2", "testR2"} THEN NegInf
  ELSE PosInf

\* mutant: write() with `result[col] || default`, which also replaces 0 and NaN
NormalizeRowFalsy(result) ==
  [col \in AllCols |-> IF result[col] \notin {Undefined, Num(0), NaN} THEN result[col]
                       ELSE ColumnDefault(col)]

\* the row object write() builds from one record
NormalizeRow(result) ==
  [col \in AllCols |-> IF result[col] # Undefined THEN result[col]
                       ELSE ColumnDefault(col)]

\* the CSV line of one record: 30 values joined by ';' and a line end
CsvLine(result) ==
  LET row == NormalizeRow(result)
  IN  JoinSemi([i \in 1..Len(RowCols) |-> JoinItem(row[RowCols[i]])]) \o <<"\n">>

\* results.map(...).join('')
CsvLines(results) == [i \in 1..Len(results) |-> CsvLine(results[i])]

\* this.header
HeaderLine == JoinSemi(HeaderCols) \o <<"\n">>
\* the one-line data writeToFile(this.header) gets
HeaderData == <<HeaderLine>>

\* new ResultWriter(): a writer is [fileIndex, currentSize, currentFile] and
\* the files it has created, in order; currentFile is a position in those
\* files, 0 for null
NewWriter == [fileIndex |-> 0, currentSize |-> 0, currentFile |-> 0, files |-> <<>>]

\* writeToFile(data)
WriteToFile(wr, data) ==
  The({ [w EXCEPT !.files[w.currentFile].data = @ \o d,
                  !.currentSize = @ + ByteLength(d)] :
          w \in {wr}, d \in {<<>> \o data} })

\* closeCurrentFile()
CloseCurrentFile(wr) == [wr EXCEPT !.files[wr.currentFile].closed = TRUE]

\* mutant: openNewFile() without `this.currentSize = 0`
OpenNewFileKeepSize(wr) ==
  LET c == IF wr.currentFile # 0 THEN CloseCurrentFile(wr) ELSE wr
      f == [n |-> c.fileIndex + 1, data |-> <<>>, closed |-> FALSE]
      o == [c EXCEPT !.fileIndex = @ + 1,
                     !.files = Append(@, f),
                     !.currentFile = Len(c.files) + 1]
  IN  WriteToFile(o, HeaderData)

\* openNewFile()
OpenNewFile(wr) ==
  LET c == IF wr.currentFile # 0 THEN CloseCurrentFile(wr) ELSE wr
      f == [n |-> c.fileIndex + 1, data |-> <<>>, closed |-> FALSE]
      o == [c EXCEPT !.fileIndex = @ + 1,
                     !.files = Append(@, f),
                     !.currentFile = Len(c.files) + 1,
                     !.currentSize = 0]
  IN  WriteToFile(o, HeaderData)

\* write(results)
WriterWrite(wr, results) ==
  LET o == IF wr.currentFile = 0 \/ wr.currentSize > maxFileSize
           THEN OpenNewFile(wr) ELSE wr
  IN  WriteToFile(o, CsvLines(results))

\* the data rows a writer has put into its files: every line but the headers
RowsOfFile(f) ==
  SelectSeq(SplitLines(f.data), LAMBDA l : l # <<>> /\ l \o <<"\n">> # HeaderLine)

RECURSIVE RowsOfFiles(_)
RowsOfFiles(fs) ==
  IF fs = <<>> THEN <<>> ELSE RowsOfFile(Head(fs)) \o RowsOfFiles(Tail(fs))

\* ------------------------------------------------------------- state
VARIABLES
  CONFIG,          \* [maxWorkers, chunkSize, ranges]: the settings of this run
  pc,              \* where main is: "spawn", "assign", "sleep", "combine"
  isDone,          \* main's loop flag
  workers,         \* main's pool: worker id -> [isBusy, processed, relevant]
  genPos,          \* paramsGenerator: number of records it has yielded
  genDone,         \* paramsGenerator: it has returned
  rngSeed,         \* the stream Math.random() follows in this run
  trainData,       \* the training data the workers were given
  rngCalls,        \* number of Math.random() calls made so far
  totalProcessed,  \* main's counter
  totalRelevant,   \* main's counter
  inbox,           \* worker id -> chunks posted to the worker, not yet handled
  outbox,          \* worker id -> messages posted to main, not yet handled
  listeners,       \* worker id -> number of once('message') handlers on it
  listening,       \* worker id -> the thread has opened its file and listens
  alive,           \* worker id -> the thread has not been terminated
  writer,          \* worker id -> the thread's ResultWriter
  checkpoints,     \* the checkpoint snapshots written, in order
  progress,        \* number of progress reports printed
  memCleans,       \* number of times the memory-clean branch was entered
  dispatched,      \* history: [worker, ids] of every chunk posted to a worker
  workLog,         \* history: worker id -> what it did with each chunk it took
  wInput,          \* the record the writer specification writes
  wWrites,         \* the number of write() calls it has made
  disk,            \* the files the merger finds and writes: path -> data
  mergeLog,        \* history: the [file, count] of every combineResults() run
  mInput,          \* the arguments the model specification calls RiverModel with
  mOutput,         \* what the last call made of them
  lInput,          \* the five series the data files of this run hold
  lOutput,         \* what the last call of the load specification made of them
  exitCode,        \* the status process.exit() was called with, -1 for no call
  gens             \* the generator specification's two generator objects

vars == <<CONFIG, pc, isDone, workers, genPos, genDone, rngSeed, trainData, rngCalls,
          totalProcessed, totalRelevant, inbox, outbox, listeners, listening,
          alive, writer, checkpoints, progress, memCleans, dispatched, workLog,
          wInput, wWrites, disk, mergeLog, mInput, mOutput, lInput, lOutput,
          exitCode, gens>>

mainVars == <<pc, isDone, workers, totalProcessed, totalRelevant, listeners,
              checkpoints, progress, memCleans>>
genVars == <<genPos, genDone, rngCalls>>
threadVars == <<listening, alive, writer, workLog>>
runVars == <<CONFIG, rngSeed, trainData>>
sinkVars == <<wInput, wWrites>>
mergeVars == <<disk, mergeLog>>
modelVars == <<mInput, mOutput>>
\* the variables of the specifications of one component on its own
loadVars == <<lInput, lOutput, exitCode>>
partVars == <<sinkVars, mergeVars, modelVars, loadVars, gens>>

\* ------------------------------------------------- parameter generator
\* CONFIG.ranges of the source, in thousandths
PesosPalmas == <<1000, 1500, 2000, 2500, 3000>>
PesosItu == <<500, 1000, 1500, 2000>>
PesosBa == <<500, 1000, 1500>>
PesosVientos == <<500, 1000, 1500, 2000>>
LagsPalmas == <<8000, 9000, 10000, 11000, 12000>>
LagsItu == <<6000, 7000, 8000, 9000>>
LagsBa == <<0, 1000, 2000>>
LagsVientos == <<0, 1000, 2000>>
FactorViento == <<800, 900, 1000, 1100, 1200>>
OffsetList == <<-200, -100, 0, 100, 200>>
CoeficientesViento ==
  [d \in Range(Dirs) |->
     CASE d = "N" -> <<-20, -15, -10, -5>>
       [] d = "NE" -> <<-15, -10, -5, 0>>
       [] d = "E" -> <<5, 10, 15, 20>>
       [] d = "SE" -> <<10, 15, 20, 25>>
       [] d = "S" -> <<-5, 0, 5, 10>>
       [] d = "SW" -> <<-10, -5, 0, 5>>
       [] d = "W" -> <<-20, -15, -10, -5>>
       [] OTHER -> <<-25, -20, -15, -10>>]

Prefix(list, k) == SubSeq(list, 1, k)

\* The ranges of a run: the ten base lists in the order of the nested loops.
\* The model keeps the first entry of each list of the source and the first
\* nOffset entries of the offset list, so that a run yields nOffset records.
RangesOf(nOffset) ==
  << Prefix(PesosPalmas, 1), Prefix(PesosItu, 1), Prefix(PesosBa, 1),
     Prefix(PesosVientos, 1), Prefix(LagsPalmas, 1), Prefix(LagsItu, 1),
     Prefix(LagsBa, 1), Prefix(LagsVientos, 1), Prefix(FactorViento, 1),
     Prefix(OffsetList, nOffset) >>

\* the number of records the nested loops yield from position d on
RECURSIVE LoopCount(_, _)
LoopCount(ranges, d) ==
  IF d > Len(ranges) THEN 1 ELSE Len(ranges[d]) * LoopCount(ranges, d + 1)

\* the number of records the generator yields
GenCount(ranges) == LoopCount(ranges, 1)

\* the base fields of the record number k (from 0) of the nested loops:
\* loop d is at entry (k \div the count of the loops inside it) % its length
BaseFields(ranges, k) ==
  [i \in 1..Len(BaseCols) |->
     Num(ranges[i][((k \div LoopCount(ranges, i + 1)) % Len(ranges[i])) + 1])]

\* Math.random(): call number c (from 0) of the stream of a seed, in [0, 1)
Random(seed, c) == ((seed * 3 + c * 7) % 10) * 100

\* getWindCoefs(): two draws per direction, starting at call number c
WindCoefs(seed, c) ==
  [col \in Range(CoefCols) |->
     LET i == CHOOSE j \in DOMAIN Dirs :
                col \in {FactorCol(Dirs[j]), PesoCol(Dirs[j])}
         values == CoeficientesViento[Dirs[i]]
         r1 == Random(seed, c + 2 * (i - 1))
         r2 == Random(seed, c + 2 * (i - 1) + 1)
     IN  IF col = FactorCol(Dirs[i])
         THEN Num(values[((r1 * Len(values)) \div 1000) + 1])
         ELSE Num(300 + (r2 * 700) \div 1000)]

\* the record the generator yields as number k (from 0), its random draws
\* starting at call number c
ParameterSet(ranges, k, seed, c) ==
  LET base == BaseFields(ranges, k)
      coefs == WindCoefs(seed, c)
  IN  [col \in ParamCols |->
         IF col \in Range(BaseCols)
         THEN base[CHOOSE i \in DOMAIN BaseCols : BaseCols[i] = col]
         ELSE coefs[col]]

\* the number of Math.random() calls one record takes
DrawsPerRecord == 2 * Len(Dirs)

\* the place (from 1) in the generator's sequence of the record with the
\* base fields of params
IndexOf(ranges, params) ==
  1 + CHOOSE k \in 0..(GenCount(ranges) - 1) :
        \A i \in DOMAIN BaseCols : BaseFields(ranges, k)[i] = params[BaseCols[i]]

\* ------------------------------------------------------------ messages
\* { type: 'done', processed: paramsChunk.length }: the worker's only reply;
\* it carries no `relevant` field
DoneMessage(k) == [type |-> "done", processed |-> Num(k * 1000), relevant |-> Undefined]
\* a reply of type 'error', which the coordinator's handler accepts
ErrorMessage == [type |-> "error", processed |-> Undefined, relevant |-> Undefined]

\* ------------------------------------------------------- worker thread
Workers == 0..(CONFIG.maxWorkers - 1)

\* history: the places in the generator's sequence of the records of a chunk
ChunkIds(chunk) == [i \in 1..Len(chunk) |-> IndexOf(CONFIG.ranges, chunk[i])]

\* CONFIG.minR2 and CONFIG.maxRMSE, in thousandths
minR2 == 850
maxRMSE == 100

\* What model.evaluate does with one parameter set on the training data: it
\* throws, or it returns { r2, rmse }. The training data are an input of the
\* run; the model knows them by what evaluate makes of each parameter set.
Outcomes ==
  << [throws |-> FALSE, r2 |-> Num(900), rmse |-> Num(50)],
     [throws |-> TRUE, r2 |-> NaN, rmse |-> NaN],
     [throws |-> FALSE, r2 |-> Num(100), rmse |-> Num(2000)],
     [throws |-> FALSE, r2 |-> NaN, rmse |-> NaN] >>

\* the outcome of evaluate on the training data d for a parameter set: the
\* data sets differ in which parameter sets throw and which fit
Evaluate(d, params) ==
  LET k == CHOOSE i \in DOMAIN OffsetList : Num(OffsetList[i]) = params["offset"]
  IN  Outcomes[((d + k) % Len(Outcomes)) + 1]

\* r2 >= CONFIG.minR2 and rmse <= CONFIG.maxRMSE
IsRelevant(oc) ==
  /\ IsFinite(oc.r2) /\ TenThousandths(oc.r2) >= 10 * minR2
  /\ IsFinite(oc.rmse) /\ TenThousandths(oc.rmse) <= 10 * maxRMSE

\* mutant: the handler pushes r2 and rmse as evaluate returned them
EvaluationResultNoSentinel(params, oc) ==
  [col \in AllCols |->
     IF col \in ParamCols THEN params[col]
     ELSE IF col \in {"trainR2", "testR2"} THEN oc.r2 ELSE oc.rmse]

\* mutant: the handler pushes the train metrics only, and write() fills the
\* test columns with their defaults
EvaluationResultNoTest(params, oc) ==
  [col \in AllCols |->
     IF col \in ParamCols THEN params[col]
     ELSE IF col = "trainR2" THEN (IF IsFinite(oc.r2) THEN oc.r2 ELSE NegInf)
     ELSE IF col = "trainRmse" THEN (IF IsFinite(oc.rmse) THEN oc.rmse ELSE PosInf)
     ELSE Undefined]

\* the record the handler pushes for a parameter set that evaluated to oc
EvaluationResult(params, oc) ==
  [col \in AllCols |->
     IF col \in ParamCols THEN params[col]
     ELSE IF col \in {"trainR2", "testR2"}
          THEN (IF IsFinite(oc.r2) THEN oc.r2 ELSE NegInf)
          ELSE (IF IsFinite(oc.rmse) THEN oc.rmse ELSE PosInf)]

\* mutant: the handler keeps only the results that meet minR2 and maxRMSE
RECURSIVE ChunkResultsFiltered(_, _)
ChunkResultsFiltered(d, chunk) ==
  IF chunk = <<>> THEN <<>>
  ELSE (IF Evaluate(d, Head(chunk)).throws \/ ~IsRelevant(Evaluate(d, Head(chunk)))
        THEN <<>>
        ELSE <<EvaluationResult(Head(chunk), Evaluate(d, Head(chunk)))>>)
       \o ChunkResultsFiltered(d, Tail(chunk))

\* mutant: results.unshift(...) in the place of results.push(...)
RECURSIVE ChunkResultsReversed(_, _)
ChunkResultsReversed(d, chunk) ==
  IF chunk = <<>> THEN <<>>
  ELSE ChunkResultsReversed(d, Tail(chunk))
       \o (IF Evaluate(d, Head(chunk)).throws THEN <<>>
           ELSE <<EvaluationResult(Head(chunk), Evaluate(d, Head(chunk)))>>)

\* the results array after the loop over the chunk: a set that throws is
\* skipped by the catch, the loop goes on
RECURSIVE ChunkResults(_, _)
ChunkResults(d, chunk) ==
  IF chunk = <<>> THEN <<>>
  ELSE (IF Evaluate(d, Head(chunk)).throws THEN <<>>
        ELSE <<EvaluationResult(Head(chunk), Evaluate(d, Head(chunk)))>>)
       \o ChunkResults(d, Tail(chunk))

\* the messages the handler posts for one chunk
ChunkReplies(chunk) == <<DoneMessage(Len(chunk))>>

\* the thread starts: new ResultWriter(), openNewFile(), then it listens
WorkerInit(w) ==
  /\ alive[w]
  /\ ~listening[w]
  /\ writer' = [writer EXCEPT ![w] = OpenNewFile(NewWriter)]
  /\ listening' = [listening EXCEPT ![w] = TRUE]
  /\ UNCHANGED <<mainVars, genVars, runVars, partVars, inbox, outbox, alive,
                 workLog, dispatched>>

\* parentPort.on('message'): one 'process' message is handled
WorkerProcess(w) ==
  /\ alive[w]
  /\ listening[w]
  /\ inbox[w] # <<>>
  /\ \E chunk \in {Head(inbox[w])}, ks \in {DOMAIN Head(inbox[w])} :
         /\ \E results \in {ChunkResults(trainData, chunk)} :
               writer' = [writer EXCEPT ![w] = WriterWrite(@, results)]
         /\ outbox' = [outbox EXCEPT ![w] = @ \o ChunkReplies(chunk)]
         /\ workLog' = [workLog EXCEPT
              ![w] = Append(@,
                [ids |-> ChunkIds(chunk),
                 k |-> Len(chunk),
                 e |-> Cardinality({i \in ks : Evaluate(trainData, chunk[i]).throws}),
                 poor |-> Cardinality({i \in ks :
                            /\ ~Evaluate(trainData, chunk[i]).throws
                            /\ ~IsRelevant(Evaluate(trainData, chunk[i]))}),
                 replies |-> ChunkReplies(chunk)])]
  /\ inbox' = [inbox EXCEPT ![w] = Tail(@)]
  /\ UNCHANGED <<mainVars, genVars, runVars, partVars, listening, alive, dispatched>>

\* a message of type 'error' arrives in answer to a chunk
WorkerError(w) ==
  /\ alive[w]
  /\ listening[w]
  /\ inbox[w] # <<>>
  /\ inbox' = [inbox EXCEPT ![w] = Tail(@)]
  /\ outbox' = [outbox EXCEPT ![w] = Append(@, ErrorMessage)]
  /\ workLog' = [workLog EXCEPT
       ![w] = Append(@, [ids |-> ChunkIds(Head(inbox[w])),
                         k |-> Len(Head(inbox[w])), e |-> 0, poor |-> 0,
                         replies |-> <<ErrorMessage>>])]
  /\ UNCHANGED <<mainVars, genVars, runVars, partVars, listening, alive, writer,
                 dispatched>>

\* ------------------------------------------------------------ coordinator
\* Array.from({ length: CONFIG.maxWorkers }, ...): the pool is created and
\* every thread starts
SpawnWorkers ==
  /\ pc = "spawn"
  /\ workers' = [w \in Workers |->
                   [isBusy |-> FALSE, processed |-> Num(0), relevant |-> Num(0)]]
  /\ alive' = [w \in Workers |-> TRUE]
  /\ pc' = "assign"
  /\ UNCHANGED <<isDone, totalProcessed, totalRelevant, listeners, checkpoints,
                 progress, memCleans, genVars, runVars, partVars, inbox, outbox,
                 listening, writer, workLog, dispatched>>

\* mutant: find() without the isBusy test
FirstWorker == CHOOSE w \in Workers : \A v \in Workers : w <= v

\* mutant: find(w => w.isBusy), the test inverted
FirstBusyWorker ==
  LET busy == {w \in Workers : workers[w].isBusy}
  IN  IF busy = {} THEN -1 ELSE CHOOSE w \in busy : \A v \in busy : w <= v

\* workers.find(w => !w.isBusy): the first idle worker, -1 when there is none
AvailableWorker ==
  LET idle == {w \in Workers : ~workers[w].isBusy}
  IN  IF idle = {} THEN -1 ELSE CHOOSE w \in idle : \A v \in idle : w <= v

\* the number of records the generator can still yield
Remaining == IF genDone THEN 0 ELSE GenCount(CONFIG.ranges) - genPos

\* the number of records the for loop of assignWork takes from the generator:
\* chunkSize, or all that remain when next() reports done before that
Pulled == IF Remaining < CONFIG.chunkSize THEN Remaining ELSE CONFIG.chunkSize

\* next() reported done inside the for loop: assignWork returns true
HitsEnd == Remaining < CONFIG.chunkSize

\* mutant: every call of assignWork reads a generator created anew
PulledChunkFromStart ==
  [i \in 1..Pulled |->
     ParameterSet(CONFIG.ranges, i - 1, rngSeed, rngCalls + DrawsPerRecord * (i - 1))]

\* the chunk array when the for loop has run to its end
PulledChunk ==
  [i \in 1..Pulled |->
     ParameterSet(CONFIG.ranges, genPos + i - 1, rngSeed,
                  rngCalls + DrawsPerRecord * (i - 1))]

\* one call of assignWork, and the assignment of its result to isDone
AssignWork ==
  /\ pc = "assign"
  /\ pc' = "sleep"
  /\ IF AvailableWorker = -1
     THEN /\ isDone' = FALSE
          /\ UNCHANGED <<workers, listeners, genVars, inbox, dispatched>>
     ELSE /\ genPos' = genPos + Pulled
          /\ rngCalls' = rngCalls + DrawsPerRecord * Pulled
          /\ genDone' = (genDone \/ HitsEnd)
          /\ isDone' = HitsEnd
          /\ IF HitsEnd
             THEN UNCHANGED <<workers, listeners, inbox, dispatched>>
             ELSE LET w == AvailableWorker
                  IN  /\ workers' = [workers EXCEPT ![w].isBusy = TRUE]
                      /\ inbox' = [inbox EXCEPT ![w] = Append(@, PulledChunk)]
                      /\ listeners' = [listeners EXCEPT ![w] = @ + 1]
                      /\ dispatched' = Append(dispatched,
                                         [worker |-> w, ids |-> ChunkIds(PulledChunk)])
  /\ UNCHANGED <<totalProcessed, totalRelevant, checkpoints, progress, memCleans,
                 runVars, partVars, outbox, threadVars>>

\* the handler's work on a message that is not of type 'error'
CountDone(w, msg) ==
  LET tp == JsAdd(totalProcessed, msg.processed)
      tr == JsAdd(totalRelevant, msg.relevant)
  IN  /\ workers' = [workers EXCEPT
                       ![w].isBusy = FALSE,
                       ![w].processed = JsAdd(@, msg.processed),
                       ![w].relevant = JsAdd(@, msg.relevant)]
      /\ totalProcessed' = tp
      /\ totalRelevant' = tr
      /\ memCleans' = IF JsModIsZero(tp, memoryCleanInterval)
                      THEN memCleans + 1 ELSE memCleans
      /\ progress' = IF JsModIsZero(tp, progressInterval)
                     THEN progress + 1 ELSE progress
      /\ checkpoints' = IF JsModIsZero(tp, checkpointInterval)
                        THEN Append(checkpoints,
                                    [totalProcessed |-> tp, totalRelevant |-> tr])
                        ELSE checkpoints

\* mutant: the handler without its early return on 'error'
DropErrorFallsThrough(w, msg) == CountDone(w, msg)

\* the handler's work on a message of type 'error'
DropError(w, msg) ==
  /\ workers' = [workers EXCEPT ![w].isBusy = FALSE]
  /\ UNCHANGED <<totalProcessed, totalRelevant, memCleans, progress, checkpoints>>

\* a message of worker w reaches main while main waits (in the loop's sleep, or
\* after the loop, when the port of a terminated worker is drained): the
\* once('message') handler of the dispatch runs, if there is one
OnMessage(w) ==
  /\ pc \in {"sleep", "combine"}
  /\ outbox[w] # <<>>
  /\ outbox' = [outbox EXCEPT ![w] = Tail(@)]
  /\ IF listeners[w] = 0
     THEN UNCHANGED <<workers, totalProcessed, totalRelevant, memCleans,
                      progress, checkpoints, listeners>>
     ELSE /\ listeners' = [listeners EXCEPT ![w] = @ - 1]
          /\ IF Head(outbox[w]).type = "error"
             THEN DropError(w, Head(outbox[w]))
             ELSE CountDone(w, Head(outbox[w]))
  /\ UNCHANGED <<pc, isDone, genVars, runVars, partVars, inbox, threadVars,
                 dispatched>>

\* the sleep of the loop ends with isDone false: the loop goes round
LoopAgain ==
  /\ pc = "sleep"
  /\ ~isDone
  /\ pc' = "assign"
  /\ UNCHANGED <<isDone, workers, totalProcessed, totalRelevant, listeners,
                 checkpoints, progress, memCleans, genVars, runVars, partVars,
                 inbox, outbox, threadVars, dispatched>>

\* the sleep ends with isDone true: main leaves the loop, terminates every
\* worker and calls combineResults
ExitLoop ==
  /\ pc = "sleep"
  /\ isDone
  /\ alive' = [w \in Workers |-> FALSE]
  /\ pc' = "combine"
  /\ UNCHANGED <<isDone, workers, totalProcessed, totalRelevant, listeners,
                 checkpoints, progress, memCleans, genVars, runVars, partVars,
                 inbox, outbox, listening, writer, workLog, dispatched>>

\* ------------------------------------------------------ specifications
Configs ==
  { [maxWorkers |-> n, chunkSize |-> c, ranges |-> RangesOf(o)] :
      n \in 1..MaxWorkers, c \in 1..MaxChunk, o \in 0..MaxOffset }

NoRecord == [col \in AllCols |-> Undefined]
\* the model specification has not called anything
NoCall == [op |-> "none"]

\* main has loaded the data and is about to create the pool
Init ==
  /\ CONFIG \in Configs
  /\ rngSeed \in 0..(NumSeeds - 1)
  /\ trainData \in 0..(NumDataSets - 1)
  /\ pc = "spawn"
  /\ isDone = FALSE
  /\ workers = [w \in {} |-> 0]
  /\ genPos = 0
  /\ genDone = FALSE
  /\ rngCalls = 0
  /\ totalProcessed = Num(0)
  /\ totalRelevant = Num(0)
  /\ inbox = [w \in Workers |-> <<>>]
  /\ outbox = [w \in Workers |-> <<>>]
  /\ listeners = [w \in Workers |-> 0]
  /\ listening = [w \in Workers |-> FALSE]
  /\ alive = [w \in Workers |-> FALSE]
  /\ writer = [w \in Workers |-> NewWriter]
  /\ checkpoints = <<>>
  /\ progress = 0
  /\ memCleans = 0
  /\ dispatched = <<>>
  /\ workLog = [w \in Workers |-> <<>>]
  /\ wInput = NoRecord
  /\ wWrites = 0
  /\ disk = <<>>
  /\ mergeLog = <<>>
  /\ mInput = NoCall
  /\ mOutput = NoCall
  /\ lInput = NoCall
  /\ lOutput = NoCall
  /\ exitCode = -1
  /\ gens = <<>>

Next ==
  \/ SpawnWorkers
  \/ AssignWork
  \/ LoopAgain
  \/ ExitLoop
  \/ \E w \in Workers : WorkerInit(w)
  \/ \E w \in Workers : WorkerProcess(w)
  \/ \E w \in Workers : OnMessage(w)

Spec == Init /\ [][Next]_vars

\* The program with its scheduling: main and every thread go on running,
\* and a message posted to main is handled during one of the loop's sleeps,
\* each of which lets the event loop run.
Fairness ==
  /\ WF_vars(SpawnWorkers)
  /\ WF_vars(AssignWork)
  /\ WF_vars(LoopAgain)
  /\ WF_vars(ExitLoop)
  /\ \A w \in 0..(MaxWorkers - 1) :
        /\ WF_vars(w \in Workers /\ WorkerInit(w))
        /\ WF_vars(w \in Workers /\ WorkerProcess(w))
        /\ SF_vars(w \in Workers /\ OnMessage(w))

SpecFair == Spec /\ Fairness

\* the same program when a worker may answer a chunk with an 'error' message
NextErr ==
  \/ Next
  \/ \E w \in Workers : WorkerError(w)

SpecErr == Init /\ [][NextErr]_vars

\* the same program with one worker and chunks of up to MaxCadenceChunk
\* parameter sets, which the intervals of the handler need not be multiples of
InitCadence ==
  /\ \E c \in 1..MaxCadenceChunk, o \in 0..MaxOffset :
        CONFIG = [maxWorkers |-> 1, chunkSize |-> c, ranges |-> RangesOf(o)]
  /\ rngSeed = 0
  /\ trainData = 0
  /\ pc = "spawn"
  /\ isDone = FALSE
  /\ workers = [w \in {} |-> 0]
  /\ genPos = 0
  /\ genDone = FALSE
  /\ rngCalls = 0
  /\ totalProcessed = Num(0)
  /\ totalRelevant = Num(0)
  /\ inbox = [w \in Workers |-> <<>>]
  /\ outbox = [w \in Workers |-> <<>>]
  /\ listeners = [w \in Workers |-> 0]
  /\ listening = [w \in Workers |-> FALSE]
  /\ alive = [w \in Workers |-> FALSE]
  /\ writer = [w \in Workers |-> NewWriter]
  /\ checkpoints = <<>>
  /\ progress = 0
  /\ memCleans = 0
  /\ dispatched = <<>>
  /\ workLog = [w \in Workers |-> <<>>]
  /\ wInput = NoRecord
  /\ wWrites = 0
  /\ disk = <<>>
  /\ mergeLog = <<>>
  /\ mInput = NoCall
  /\ mOutput = NoCall
  /\ lInput = NoCall
  /\ lOutput = NoCall
  /\ exitCode = -1
  /\ gens = <<>>

SpecCadence == InitCadence /\ [][Next]_vars

\* ------------------------------------------------- the writer on its own
\* The records write() is given: a full record of one of three kinds, less
\* the fields of a set of at most MaxAbsent columns, or less all of them.
FullRecord(kind) ==
  [col \in AllCols |->
     LET i == CHOOSE j \in DOMAIN HeaderCols : HeaderCols[j] = col
     IN  CASE kind = 0 -> Num(0)
           [] kind = 1 -> Num(i * 1000 + 5 * i)
           [] OTHER -> IF i = 27 THEN NaN
                       ELSE IF i = 28 THEN NegInf
                       ELSE IF i = 29 THEN PosInf
                       ELSE Num(0 - 10 * i)]

\* the sets of at most k columns
RECURSIVE ColumnSets(_)
ColumnSets(k) ==
  IF k = 0 THEN {{}}
  ELSE LET less == ColumnSets(k - 1)
       IN  less \cup {S \cup {c} : S \in less, c \in AllCols}

AbsentSets == ColumnSets(MaxAbsent) \cup {AllCols}

WriterInputs ==
  { [col \in AllCols |-> IF col \in S THEN Undefined ELSE FullRecord(kind)[col]] :
      S \in AbsentSets, kind \in 0..2 }

\* a ResultWriter is constructed; nothing else of the program runs
InitSink ==
  /\ CONFIG = [maxWorkers |-> 1, chunkSize |-> 1, ranges |-> RangesOf(0)]
  /\ rngSeed = 0
  /\ trainData = 0
  /\ pc = "writer"
  /\ isDone = FALSE
  /\ workers = [w \in {} |-> 0]
  /\ genPos = 0
  /\ genDone = FALSE
  /\ rngCalls = 0
  /\ totalProcessed = Num(0)
  /\ totalRelevant = Num(0)
  /\ inbox = [w \in Workers |-> <<>>]
  /\ outbox = [w \in Workers |-> <<>>]
  /\ listeners = [w \in Workers |-> 0]
  /\ listening = [w \in Workers |-> FALSE]
  /\ alive = [w \in Workers |-> FALSE]
  /\ writer = [w \in Workers |-> NewWriter]
  /\ checkpoints = <<>>
  /\ progress = 0
  /\ memCleans = 0
  /\ dispatched = <<>>
  /\ workLog = [w \in Workers |-> <<>>]
  /\ wInput \in WriterInputs
  /\ wWrites = 0
  /\ disk = <<>>
  /\ mergeLog = <<>>
  /\ mInput = NoCall
  /\ mOutput = NoCall
  /\ lInput = NoCall
  /\ lOutput = NoCall
  /\ exitCode = -1
  /\ gens = <<>>

\* writer.openNewFile()
SinkOpen ==
  /\ pc = "writer"
  /\ writer[0].fileIndex < MaxWrites
  /\ writer' = [writer EXCEPT ![0] = OpenNewFile(@)]
  /\ UNCHANGED <<mainVars, genVars, runVars, partVars, inbox, outbox, listening,
                 alive, workLog, dispatched>>

\* writer.write(results) with a batch of n copies of the record
SinkWrite ==
  /\ pc = "writer"
  /\ wWrites < MaxWrites
  /\ \E n \in 1..2 :
       writer' = [writer EXCEPT ![0] = WriterWrite(@, [i \in 1..n |-> wInput])]
  /\ wWrites' = wWrites + 1
  /\ UNCHANGED <<mainVars, genVars, runVars, wInput, mergeVars, modelVars,
                 loadVars, gens, inbox,
                 outbox,
                 listening, alive, workLog, dispatched>>

NextSink == SinkOpen \/ SinkWrite

SpecSink == InitSink /\ [][NextSink]_vars

\* ------------------------------------------------------ combineResults
\* A path is [dir, stem, num, ext]: the file <stem><num><ext> of a directory.
ResultsDir == "./resultados_parciales"
\* mutant: CONFIG.finalFile is a results_<n>.csv of the results directory
FinalPathAmongPartials ==
  [dir |-> ResultsDir, stem |-> "results_", num |-> 0, ext |-> ".csv"]
\* CONFIG.finalFile
FinalPath == [dir |-> ".", stem |-> "resultados_finales", num |-> 0, ext |-> ".csv"]

\* the header combineResults writes, before the join
MergeHeaderCols ==
  <<"pesoPalmas", "pesoItu", "pesoBa", "pesoVientos",
    "lagPalmas", "lagItu", "lagBa", "lagVientos",
    "factorViento", "offset",
    "coef_N_factor", "coef_N_peso", "coef_NE_factor", "coef_NE_peso",
    "coef_E_factor", "coef_E_peso", "coef_SE_factor", "coef_SE_peso",
    "coef_S_factor", "coef_S_peso", "coef_SW_factor", "coef_SW_peso",
    "coef_W_factor", "coef_W_peso", "coef_NW_factor", "coef_NW_peso",
    "trainR2", "testR2", "trainRmse", "testRmse">>
MergeHeader == JoinSemi(MergeHeaderCols) \o <<"\n">>

\* Whitespace stands in a line as atoms of its own: "" and " " are the texts
\* that trim() turns into the empty text.
Blanks == {"", " "}
\* text.trim()
Trim(text) == IF text \in Blanks THEN "" ELSE text
\* line.trim() is the empty text
LineIsBlank(line) == \A i \in DOMAIN line : line[i] \in Blanks
\* line.startsWith('pesoPalmas'): of the texts of a line only the first
\* column name begins so
StartsWithPesoPalmas(line) == line # <<>> /\ line[1] = "pesoPalmas"

\* f.startsWith('results_') && f.endsWith('.csv')
IsPartialName(path) == path.stem = "results_" /\ path.ext = ".csv"

\* the first decimal digit of n and the ones after it, for 0 <= n < 100
FirstDigit(n) == IF n < 10 THEN n ELSE n \div 10
\* the name results_<a>.csv sorts before results_<b>.csv as text
LexBefore(a, b) ==
  \/ FirstDigit(a) < FirstDigit(b)
  \/ /\ FirstDigit(a) = FirstDigit(b)
     /\ \/ a < 10 /\ b >= 10
        \/ a >= 10 /\ b >= 10 /\ a % 10 < b % 10

\* mutant: files.sort() without the comparator, the names in text order
RECURSIVE SortedByName(_)
SortedByName(paths) ==
  IF paths = {} THEN <<>>
  ELSE LET m == CHOOSE p \in paths :
                  \A q \in paths : q = p \/ LexBefore(p.num, q.num)
       IN  <<m>> \o SortedByName(paths \ {m})

\* files.sort((a, b) => numA - numB): ascending by the number in the name
RECURSIVE SortedByNumber(_)
SortedByNumber(paths) ==
  IF paths = {} THEN <<>>
  ELSE LET m == CHOOSE p \in paths : \A q \in paths : p.num <= q.num
       IN  <<m>> \o SortedByNumber(paths \ {m})

\* the partial files combineResults reads, in the order it reads them
PartialFiles(d) ==
  SortedByNumber({p \in DOMAIN d : p.dir = ResultsDir /\ IsPartialName(p)})

\* the default combineResults gives column i (from 0)
MergeDefault(i) ==
  IF i < 10 THEN "0"
  ELSE IF i < 26 THEN (IF i % 2 = 0 THEN "0" ELSE "0.5")
  ELSE IF i < 28 THEN "-Infinity"
  ELSE "Infinity"

\* mutant: the loop takes every part of the line
AllParts(parts) ==
  [k \in 1..(IF Len(parts) > 30 THEN Len(parts) ELSE 30) |->
     IF k <= Len(parts) /\ Trim(parts[k]) # "" THEN parts[k] ELSE MergeDefault(k - 1)]

\* normalizedParts for the parts of one line
NormalizedParts(parts) ==
  [k \in 1..30 |->
     IF k - 1 < Len(parts) /\ Trim(parts[k]) # "" THEN parts[k]
     ELSE MergeDefault(k - 1)]

\* the lines combineResults writes for the content of one partial file
MergedLines(data) ==
  LET kept == SelectSeq(SplitLines(data),
                        LAMBDA l : ~LineIsBlank(l) /\ ~StartsWithPesoPalmas(l))
  IN  [i \in 1..Len(kept) |->
         JoinSemi(NormalizedParts(SplitSemi(kept[i]))) \o <<"\n">>]

\* the lines written for the files of a list, one file after the other
RECURSIVE MergedFiles(_, _)
MergedFiles(d, files) ==
  IF files = <<>> THEN <<>>
  ELSE MergedLines(d[Head(files)]) \o MergedFiles(d, Tail(files))

\* combineResults(): the data of the final file and the number returned
CombineResults(d) ==
  LET rows == MergedFiles(d, PartialFiles(d))
  IN  [file |-> <<MergeHeader>> \o rows, count |-> Len(rows)]

\* fs.createWriteStream(path) and the writes to it: the file is replaced
DiskWrite(d, path, data) ==
  [q \in (DOMAIN d) \cup {path} |-> IF q = path THEN data ELSE d[q]]

\* one run of combineResults()
Combine ==
  /\ pc = "merge"
  /\ Len(mergeLog) < MaxRuns
  /\ disk' = DiskWrite(disk, FinalPath, CombineResults(disk).file)
  /\ mergeLog' = Append(mergeLog, CombineResults(disk))
  /\ UNCHANGED <<mainVars, genVars, runVars, sinkVars, modelVars, loadVars, gens,
                 inbox, outbox,
                 threadVars, dispatched>>

\* ------------------------------------------------- the merger on its own
\* the lines a partial file may hold: rows as the writer makes them, the
\* header, and lines that are short, long, blank or have blank fields
ShortRow == <<"1", ";", "2.5", ";", "3", "\n">>
BlankFieldsRow ==
  JoinSemi([i \in 1..30 |-> IF i \in {2, 27, 30} THEN ""
                            ELSE IF i \in {12, 28} THEN " "
                            ELSE ToString(200 + i)]) \o <<"\n">>
LongRow == JoinSemi([i \in 1..32 |-> ToString(100 + i)]) \o <<"\n">>
EmptyLine == <<"\n">>
SpaceLine == <<" ", "\n">>
LinePool ==
  << HeaderLine, CsvLine(FullRecord(1)), ShortRow, BlankFieldsRow, SpaceLine,
     LongRow, EmptyLine, CsvLine(FullRecord(2)) >>

\* the content of a partial file: len lines of the pool from line k on
Content(k, len) == [i \in 1..len |-> LinePool[((k + i - 2) % Len(LinePool)) + 1]]

\* the numbers of the partial files a directory may hold
FileNumbers == <<10, 2, 1, 20>>
PartialPath(n) == [dir |-> ResultsDir, stem |-> "results_", num |-> n, ext |-> ".csv"]

\* files of the results directory that are no partial files
OtherFiles ==
  { [dir |-> ResultsDir, stem |-> "notes_", num |-> 3, ext |-> ".csv"],
    [dir |-> ResultsDir, stem |-> "results_", num |-> 4, ext |-> ".tmp"] }

\* the directories the merger is run on: some of the partial files exist;
\* they hold len lines each, consecutive lines of the pool from line k on
Disks ==
  { [p \in {PartialPath(FileNumbers[i]) : i \in S} \cup OtherFiles |->
       IF p \in OtherFiles THEN <<CsvLine(FullRecord(1))>>
       ELSE LET i == CHOOSE j \in S : FileNumbers[j] = p.num
            IN  Content(k + (i - 1) * len, len)] :
      S \in SUBSET (1..MaxFiles), k \in 1..Len(LinePool), len \in 0..MaxLines }

InitMerge ==
  /\ CONFIG = [maxWorkers |-> 1, chunkSize |-> 1, ranges |-> RangesOf(0)]
  /\ rngSeed = 0
  /\ trainData = 0
  /\ pc = "merge"
  /\ isDone = FALSE
  /\ workers = [w \in {} |-> 0]
  /\ genPos = 0
  /\ genDone = FALSE
  /\ rngCalls = 0
  /\ totalProcessed = Num(0)
  /\ totalRelevant = Num(0)
  /\ inbox = [w \in Workers |-> <<>>]
  /\ outbox = [w \in Workers |-> <<>>]
  /\ listeners = [w \in Workers |-> 0]
  /\ listening = [w \in Workers |-> FALSE]
  /\ alive = [w \in Workers |-> FALSE]
  /\ writer = [w \in Workers |-> NewWriter]
  /\ checkpoints = <<>>
  /\ progress = 0
  /\ memCleans = 0
  /\ dispatched = <<>>
  /\ workLog = [w \in Workers |-> <<>>]
  /\ wInput = NoRecord
  /\ wWrites = 0
  /\ disk \in Disks
  /\ mergeLog = <<>>
  /\ mInput = NoCall
  /\ mOutput = NoCall
  /\ lInput = NoCall
  /\ lOutput = NoCall
  /\ exitCode = -1
  /\ gens = <<>>

NextMerge == Combine

SpecMerge == InitMerge /\ [][NextMerge]_vars

\* ----------------------------------------------------------- RiverModel
\* More JavaScript values: a text is [t |-> "str", s |-> the text] and the
\* object getDefaultWindValues() returns is DefaultWindValues.
JsStr(text) == [t |-> "str", s |-> text]
DefaultWindValues ==
  [t |-> "obj", direction |-> "N", speed |-> Num(0), contribution |-> Num(0)]

\* the values that count as false in `v || d` and `!v`
Falsy(v) == v \in {Undefined, NaN, Num(0), JsStr("")}
\* v || d
OrElse(v, d) == IF Falsy(v) THEN d ELSE v

\* Number(v), the conversion the arithmetic operators apply: undefined, an
\* object and a text that is no numeral (such as one that holds
\* "[object Object]") give NaN
ToNumber(v) == IF v.t \in {"num", "inf", "nan"} THEN v ELSE NaN

\* -v
JsNeg(v) ==
  CASE v.t = "num" -> Num(0 - v.n)
    [] v.t = "inf" -> [t |-> "inf", n |-> 0 - v.n]
    [] OTHER -> NaN

\* a - b
JsSub(a, b) == JsAdd(ToNumber(a), JsNeg(ToNumber(b)))

\* Math.abs(v)
JsAbs(v) ==
  CASE v.t = "num" -> Num(IF v.n < 0 THEN 0 - v.n ELSE v.n)
    [] v.t = "inf" -> PosInf
    [] OTHER -> NaN

\* a < b on numbers
JsLess(a, b) ==
  CASE a.t = "num" /\ b.t = "num" -> a.n < b.n
    [] a.t = "num" /\ b.t = "inf" -> b.n > 0
    [] a.t = "inf" /\ b.t = "num" -> a.n < 0
    [] a.t = "inf" /\ b.t = "inf" -> a.n < b.n
    [] OTHER -> FALSE

\* a * b; the product of two finite numbers is kept to the thousandth
JsMul(a, b) ==
  LET x == ToNumber(a)
      y == ToNumber(b)
      sign(v) == IF v.n < 0 THEN -1 ELSE IF v.n > 0 THEN 1 ELSE 0
  IN  CASE x.t = "num" /\ y.t = "num" ->
             Num(sign(x) * sign(y) *
                 (((sign(x) * x.n) * (sign(y) * y.n)) \div 1000))
        [] x.t = "nan" \/ y.t = "nan" -> NaN
        [] sign(x) * sign(y) = 0 -> NaN
        [] OTHER -> [t |-> "inf", n |-> sign(x) * sign(y)]

\* String(v) for every value
ToStr(v) ==
  CASE v.t = "str" -> v.s
    [] v.t = "obj" -> "[object Object]"
    [] OTHER -> JsString(v)

\* a + b: the sum of two numbers, the joined texts when either is a text or
\* an object
JsPlus(a, b) ==
  IF a.t \in {"str", "obj"} \/ b.t \in {"str", "obj"}
  THEN JsStr(ToStr(a) \o ToStr(b))
  ELSE JsAdd(a, b)

\* A Date is the number getTime() gives, NaN for an Invalid Date. Time is
\* counted in hours, so that hours * 3600 * 1000 ms is the number of hours.
IsDate(v) == v.t \in {"num", "nan"}
\* new Date(time)
NewDate(time) == IF time.t = "num" THEN time ELSE NaN
\* x?.getTime()
GetTime(x) == IF IsDate(x) THEN x ELSE Undefined

\* the object reduce() starts from: { y: 0 }
NoPoint == [x |-> Undefined, y |-> Num(0)]

\* the callback of reduce() in findClosestValue
CloserPoint(prev, curr, targetTime) ==
  LET currTime == OrElse(GetTime(curr.x), Num(0))
      prevDiff == OrElse(JsAbs(JsSub(GetTime(prev.x), targetTime)), PosInf)
      currDiff == OrElse(JsAbs(JsSub(currTime, targetTime)), PosInf)
  IN  IF JsLess(currDiff, prevDiff) THEN curr ELSE prev

\* data.reduce(callback, { y: 0 }) over the points 1..k of data
RECURSIVE ReduceClosest(_, _, _)
ReduceClosest(data, k, targetTime) ==
  IF k = 0 THEN NoPoint
  ELSE The({ CloserPoint(prev, data[k], targetTime) :
               prev \in {ReduceClosest(data, k - 1, targetTime)} })

\* findClosestValue(data, targetDate)
FindClosestValue(data, targetDate) ==
  IF ~IsDate(targetDate) THEN Num(0)
  ELSE IF GetTime(targetDate) = NaN THEN Num(0)
  ELSE ReduceClosest(data, Len(data), GetTime(targetDate)).y

\* obj[key]: undefined when the object has no such key
Get(obj, key) == IF key \in DOMAIN obj THEN obj[key] ELSE Undefined

\* new RiverModel({...}) as the worker's handler builds it from a parameter set
WorkerModelConfig(params) ==
  [weights |-> [palmas |-> params["pesoPalmas"], itu |-> params["pesoItu"],
                ba |-> params["pesoBa"], winds |-> params["pesoVientos"]],
   lags |-> [palmas |-> params["lagPalmas"], itu |-> params["lagItu"],
             ba |-> params["lagBa"], winds |-> params["lagVientos"]],
   windCoeffs |-> [d \in Range(Dirs) |-> OrElse(params[FactorCol(d)], Num(0))],
   windFactor |-> params["factorViento"],
   offset |-> params["offset"]]

\* what a call gives: a value, or an exception
Returned(v) == [throws |-> FALSE, value |-> v]
Thrown == [throws |-> TRUE, value |-> Undefined]

\* lagHours * 3600 * 1000, as a time
LagTime(lag) == ToNumber(lag)

\* calculateComponent(source, targetPoint, data): getTime() of a missing date
\* and toISOString() of an Invalid Date throw
CalculateComponent(config, source, targetPoint, data) ==
  IF ~IsDate(targetPoint.x) THEN Thrown
  ELSE LET laggedDate == NewDate(JsSub(GetTime(targetPoint.x),
                                       LagTime(Get(config.lags, source))))
           value == FindClosestValue(data, laggedDate)
           contribution == JsMul(value, Get(config.weights, source))
       IN  IF laggedDate = NaN THEN Thrown ELSE Returned(contribution)

\* calculateWindComponent(targetPoint, windData)
CalculateWindComponent(config, targetPoint, windData) ==
  IF ~IsDate(targetPoint.x) \/ GetTime(targetPoint.x) = NaN
  THEN DefaultWindValues
  ELSE LET laggedDate == NewDate(JsSub(GetTime(targetPoint.x),
                                       LagTime(Get(config.lags, "vientos"))))
           windPoint == FindClosestValue(windData, laggedDate)
           direction == Get(windPoint, "direction")
           coeff == IF direction = Undefined THEN Undefined
                    ELSE Get(config.windCoeffs, direction)
       IN  IF laggedDate = NaN THEN DefaultWindValues
           ELSE IF Falsy(windPoint) \/ direction = Undefined THEN DefaultWindValues
           ELSE IF Falsy(coeff) \/ ToNumber(Get(windPoint, "speed")) = NaN
                THEN DefaultWindValues
           ELSE JsMul(JsMul(coeff, Get(windPoint, "speed")), config.windFactor)

\* components.palmas + components.itu + components.ba + components.wind +
\* this.offset, the operands given as a sequence: the sum of the first k
RECURSIVE PlusAll(_, _)
PlusAll(operands, k) ==
  IF k = 1 THEN operands[1]
  ELSE The({ JsPlus(left, operands[k]) : left \in {PlusAll(operands, k - 1)} })

\* predict(targetPoint, inputData)
Predict(config, targetPoint, inputData) ==
  The({ IF palmas.throws \/ itu.throws \/ ba.throws THEN Thrown
        ELSE Returned(PlusAll(<<palmas.value, itu.value, ba.value, wind,
                                config.offset>>, 5)) :
          palmas \in {CalculateComponent(config, "palmas", targetPoint,
                                         inputData.palmas)},
          itu \in {CalculateComponent(config, "itu", targetPoint, inputData.itu)},
          ba \in {CalculateComponent(config, "ba", targetPoint, inputData.ba)},
          wind \in {CalculateWindComponent(config, targetPoint, inputData.vientos)} })

\* a / b rounded to the nearest integer, halves away from zero; b > 0
RoundDiv(a, b) ==
  IF a >= 0 THEN (2 * a + b) \div (2 * b)
  ELSE 0 - ((2 * (0 - a) + b) \div (2 * b))

\* the square root of a / b rounded to the nearest integer: the least k of
\* lo..hi with a / b < (k + 1/2)^2; a >= 0, b > 0
RECURSIVE RoundSqrt(_, _, _, _)
RoundSqrt(a, b, lo, hi) ==
  IF lo >= hi THEN lo
  ELSE LET mid == (lo + hi) \div 2
       IN  IF 4 * a < (2 * mid + 1) * (2 * mid + 1) * b
           THEN RoundSqrt(a, b, lo, mid)
           ELSE RoundSqrt(a, b, mid + 1, hi)

\* the sum of the values of a sequence of numbers
RECURSIVE JsSum(_)
JsSum(values) ==
  IF values = <<>> THEN Num(0)
  ELSE JsAdd(JsSum(SubSeq(values, 1, Len(values) - 1)), values[Len(values)])

\* the sum of the integers of a sequence
RECURSIVE IntSum(_)
IntSum(ints) == IF ints = <<>> THEN 0 ELSE Head(ints) + IntSum(Tail(ints))

\* A sum of squares of numbers that are not all finite is NaN or Infinity:
\* it is the sum of the squares with 0 in the place of each finite one.
SumOfSquaresNotFinite(values) ==
  JsSum([i \in DOMAIN values |->
           IF ToNumber(values[i]).t = "num" THEN Num(0)
           ELSE JsMul(values[i], values[i])])

\* the largest absolute value of the integers of a sequence, 0 for none
RECURSIVE MaxAbs(_)
MaxAbs(ints) ==
  IF ints = <<>> THEN 0
  ELSE LET h == IF Head(ints) < 0 THEN 0 - Head(ints) ELSE Head(ints)
           m == MaxAbs(Tail(ints))
       IN  IF h > m THEN h ELSE m

\* The body of calculateMetrics, with or without its two tests. The sums of
\* finite numbers are exact: with the values in thousandths, sse6 is
\* sumSquaredErrors and sst6 / n is ssTotal, both in millionths, so that
\* ssTotal <= 1e-10 holds only when sst6 is 0. A division by 0 gives NaN or
\* an infinity, as it does in JavaScript.
MetricsOf(predictions, observations, errors, testsEmpty, testsSsTotal) ==
  LET n == Len(observations)
      finiteErrors == \A i \in DOMAIN errors : ToNumber(errors[i]).t = "num"
      finiteObs == \A i \in DOMAIN observations : ToNumber(observations[i]).t = "num"
      sse6 == IntSum([i \in DOMAIN errors |-> errors[i].n * errors[i].n])
      sumObs == IntSum([i \in DOMAIN observations |-> observations[i].n])
      sst6 == n * IntSum([i \in DOMAIN observations |->
                            observations[i].n * observations[i].n]) - sumObs * sumObs
      sseTag == SumOfSquaresNotFinite(errors)
      \* parseFloat(rmse.toFixed(4))
      rmse == IF ~finiteErrors THEN sseTag
              ELSE IF n = 0 THEN NaN
              ELSE Fixed4(RoundSqrt(100 * sse6, n, 0,
                                    10 * MaxAbs([i \in DOMAIN errors |-> errors[i].n]) + 1))
      \* 1 - (sumSquaredErrors / ssTotal), then parseFloat(r2.toFixed(4))
      ratio == IF ~finiteObs THEN NaN
               ELSE IF ~finiteErrors THEN (IF sseTag = NaN THEN NaN ELSE NegInf)
               ELSE IF sst6 = 0 THEN (IF sse6 = 0 THEN NaN ELSE NegInf)
               ELSE Fixed4(RoundDiv(10000 * (sst6 - n * sse6), sst6))
      r2 == IF testsSsTotal /\ finiteObs /\ sst6 = 0 THEN Num(0) ELSE ratio
  IN  IF testsEmpty /\ n = 0 THEN [r2 |-> Num(0), rmse |-> PosInf]
      ELSE [r2 |-> r2, rmse |-> rmse, predictions |-> predictions]

\* mutant: calculateMetrics without `if (ssTotal <= 1e-10) r2 = 0`
CalculateMetricsNoSsTotalTest(predictions, observations, errors) ==
  MetricsOf(predictions, observations, errors, TRUE, FALSE)

\* mutant: calculateMetrics without `if (n === 0) return ...`
CalculateMetricsNoEmptyTest(predictions, observations, errors) ==
  MetricsOf(predictions, observations, errors, FALSE, TRUE)

\* calculateMetrics({ predictions, observations, errors })
CalculateMetrics(predictions, observations, errors) ==
  MetricsOf(predictions, observations, errors, TRUE, TRUE)

\* the error of one target point: targetPoint.y - prediction
PredictionError(targetPoint, prediction) == JsSub(targetPoint.y, prediction)

\* what predict gives for the first k points of the target
RECURSIVE PredictAll(_, _, _)
PredictAll(config, data, k) ==
  IF k = 0 THEN <<>>
  ELSE Append(PredictAll(config, data, k - 1), Predict(config, data.target[k], data))

\* evaluate(data): it throws when predict throws for a point of the target
ModelEvaluate(config, data) ==
  The({ IF \E i \in DOMAIN ps : ps[i].throws THEN Thrown
        ELSE The({ [throws |-> FALSE, r2 |-> metrics.r2, rmse |-> metrics.rmse] :
                     metrics \in {CalculateMetrics(
                        [i \in DOMAIN ps |-> ps[i].value],
                        [i \in DOMAIN ps |-> data.target[i].y],
                        [i \in DOMAIN ps |->
                           PredictionError(data.target[i], ps[i].value)])} }) :
          ps \in {PredictAll(config, data, Len(data.target))} })

\* what the worker's handler makes of one parameter set: the result it
\* pushes, or nothing when the evaluation throws
WorkerResult(params, data) ==
  The({ IF oc.throws THEN <<>> ELSE <<EvaluationResult(params, oc)>> :
          oc \in {ModelEvaluate(WorkerModelConfig(params), data)} })

\* -------------------------------------------------- the model on its own
\* the Date of the hour h
DateAt(h) == Num(h * 1000)

\* the series the model is called with: up to MaxPoints points at any of
\* the hours 0..MaxTime, in any order; point i has the value 2 * i
SeriesSet ==
  UNION { { [i \in 1..len |-> [x |-> DateAt(hours[i]), y |-> Num(2000 * i)]] :
              hours \in [1..len -> 0..MaxTime] } : len \in 0..MaxPoints }

\* the dates it is called with: the hours 0..MaxTime, an Invalid Date, and
\* no date at all
QueryDates == {DateAt(h) : h \in 0..MaxTime} \cup {NaN, Undefined}

\* the parameter sets a model is built from: the first records of a generator
ModelParams == {ParameterSet(RangesOf(2), k, 0, DrawsPerRecord * k) : k \in 0..1}

\* a series, a date, a parameter set and the number of points of the target
LookupInputs ==
  { [op |-> "lookup", series |-> sr, query |-> q, params |-> ps, nTarget |-> nt] :
      sr \in SeriesSet, q \in QueryDates, ps \in ModelParams, nt \in 0..MaxPoints }

\* the values of the observations and predictions calculateMetrics is
\* called with: 0, 0.02 and 0.04, and for a prediction NaN as well
LevelValues == {Num(0), Num(20), Num(40)}

\* observations and predictions of the same length, up to MaxPoints
MetricInputs ==
  UNION { { [op |-> "metrics", observations |-> obs, predictions |-> pr] :
              obs \in [1..len -> LevelValues],
              pr \in [1..len -> LevelValues \cup {NaN}] } : len \in 0..MaxPoints }

ModelInputs == LookupInputs \cup MetricInputs

InitModel ==
  /\ CONFIG = [maxWorkers |-> 1, chunkSize |-> 1, ranges |-> RangesOf(0)]
  /\ rngSeed = 0
  /\ trainData = 0
  /\ pc = "model"
  /\ isDone = FALSE
  /\ workers = [w \in {} |-> 0]
  /\ genPos = 0
  /\ genDone = FALSE
  /\ rngCalls = 0
  /\ totalProcessed = Num(0)
  /\ totalRelevant = Num(0)
  /\ inbox = [w \in Workers |-> <<>>]
  /\ outbox = [w \in Workers |-> <<>>]
  /\ listeners = [w \in Workers |-> 0]
  /\ listening = [w \in Workers |-> FALSE]
  /\ alive = [w \in Workers |-> FALSE]
  /\ writer = [w \in Workers |-> NewWriter]
  /\ checkpoints = <<>>
  /\ progress = 0
  /\ memCleans = 0
  /\ dispatched = <<>>
  /\ workLog = [w \in Workers |-> <<>>]
  /\ wInput = NoRecord
  /\ wWrites = 0
  /\ disk = <<>>
  /\ mergeLog = <<>>
  /\ mInput \in ModelInputs
  /\ mOutput = NoCall
  /\ lInput = NoCall
  /\ lOutput = NoCall
  /\ exitCode = -1
  /\ gens = <<>>

\* what no call of the model specification changes
ModelFrame ==
  UNCHANGED <<mainVars, genVars, runVars, sinkVars, mergeVars, loadVars, gens, mInput,
              inbox,
              outbox, threadVars, dispatched>>

\* model.findClosestValue(series, query)
CallFindClosestValue ==
  /\ pc = "model"
  /\ mInput.op = "lookup"
  /\ mOutput' = [op |-> "findClosestValue",
                 value |-> FindClosestValue(mInput.series, mInput.query)]
  /\ ModelFrame

\* the wind series of a run: the points of the series with a speed of
\* 10 * i and the direction number i
WindSeries(series) ==
  [i \in DOMAIN series |->
     [x |-> series[i].x, y |-> Num(10000 * i), speed |-> Num(10000 * i),
      direction |-> Dirs[i]]]

\* the target point of a call: the query date and the level 4
TargetPoint == [x |-> mInput.query, y |-> Num(4000)]
\* the input data of a call: the series for the three rivers, and the winds
InputData ==
  [palmas |-> mInput.series, itu |-> mInput.series, ba |-> mInput.series,
   vientos |-> WindSeries(mInput.series)]

\* model.calculateComponent('ba', targetPoint, series)
CallCalculateComponent ==
  /\ pc = "model"
  /\ mInput.op = "lookup"
  /\ mOutput' = [op |-> "calculateComponent", source |-> "ba",
                 result |-> CalculateComponent(WorkerModelConfig(mInput.params),
                                               "ba", TargetPoint, mInput.series)]
  /\ ModelFrame

\* model.calculateWindComponent(targetPoint, winds)
CallCalculateWindComponent ==
  /\ pc = "model"
  /\ mInput.op = "lookup"
  /\ mOutput' = [op |-> "calculateWindComponent",
                 value |-> CalculateWindComponent(WorkerModelConfig(mInput.params),
                                                  TargetPoint, InputData.vientos)]
  /\ ModelFrame

\* model.predict(targetPoint, inputData)
CallPredict ==
  /\ pc = "model"
  /\ mInput.op = "lookup"
  /\ mOutput' = [op |-> "predict",
                 result |-> Predict(WorkerModelConfig(mInput.params),
                                    TargetPoint, InputData)]
  /\ ModelFrame

\* calculateMetrics on the observations and predictions, with the errors
\* evaluate computes for them
CallCalculateMetrics ==
  /\ pc = "model"
  /\ mInput.op = "metrics"
  /\ mOutput' =
       [op |-> "calculateMetrics",
        metrics |-> CalculateMetrics(
                      mInput.predictions, mInput.observations,
                      [i \in DOMAIN mInput.observations |->
                         PredictionError([y |-> mInput.observations[i]],
                                         mInput.predictions[i])])]
  /\ ModelFrame

\* the target series of a call: nTarget points, an hour apart from the query
\* date on, with the levels 4, 8, ...
TargetSeries ==
  [i \in 1..mInput.nTarget |->
     [x |-> IF mInput.query.t = "num" THEN Num(mInput.query.n + 1000 * (i - 1))
            ELSE mInput.query,
      y |-> Num(4000 * i)]]

\* what the worker's handler does with one parameter set: model.evaluate on
\* the training data, and the result it pushes
CallEvaluate ==
  /\ pc = "model"
  /\ mInput.op = "lookup"
  /\ LET data == [palmas |-> InputData.palmas, itu |-> InputData.itu,
                  ba |-> InputData.ba, vientos |-> InputData.vientos,
                  target |-> TargetSeries]
     IN  mOutput' = [op |-> "evaluate",
                     result |-> ModelEvaluate(WorkerModelConfig(mInput.params), data),
                     pushed |-> WorkerResult(mInput.params, data)]
  /\ ModelFrame

NextModel ==
  \/ CallFindClosestValue
  \/ CallCalculateComponent
  \/ CallCalculateWindComponent
  \/ CallPredict
  \/ CallCalculateMetrics
  \/ CallEvaluate

SpecModel == InitModel /\ [][NextModel]_vars

\* ------------------------------------------------------------ data load
\* the series loadAllData loads, in the order of its Promise.all
SeriesNames == {"palmas", "itu", "ba", "ram", "vientos"}

\* loadCSV('<name>.csv'): the program declares no loadCSV (it declares
\* loadWindCSV, which nothing calls), so the call throws a ReferenceError
\* whatever the file holds
LoadCSV(series) == Thrown

\* the points p of a series with p.x <= splitDate (after = FALSE) or with
\* p.x > splitDate (after = TRUE); a comparison with an Invalid Date is false
FilterBySplit(series, splitDate, after) ==
  LET Keep(p) == /\ p.x.t = "num" /\ splitDate.t = "num"
                 /\ IF after THEN p.x.n > splitDate.n ELSE p.x.n <= splitDate.n
  IN  SelectSeq(series, Keep)

\* loadAllData from the test of ram.length on: it throws for an empty ram,
\* else it splits the five series at the date of ram[floor(length * 0.7)]
SplitData(loaded) ==
  IF Len(loaded.ram) = 0 THEN Thrown
  ELSE LET splitIndex == (7 * Len(loaded.ram)) \div 10
           splitDate == loaded.ram[splitIndex + 1].x
       IN  Returned([trainData |-> [k \in SeriesNames |->
                                      FilterBySplit(loaded[k], splitDate, FALSE)],
                     testData |-> [k \in SeriesNames |->
                                     FilterBySplit(loaded[k], splitDate, TRUE)]])

\* loadAllData(): the five loadCSV calls, then the split
LoadAllData(files) ==
  IF \E k \in SeriesNames : LoadCSV(files[k]).throws THEN Thrown
  ELSE SplitData([k \in SeriesNames |-> LoadCSV(files[k]).value])

\* Math.min(a, b) and Math.max(a, b)
MathMin(a, b) ==
  IF ToNumber(a) = NaN \/ ToNumber(b) = NaN THEN NaN
  ELSE IF JsLess(b, a) THEN b ELSE a
MathMax(a, b) ==
  IF ToNumber(a) = NaN \/ ToNumber(b) = NaN THEN NaN
  ELSE IF JsLess(a, b) THEN b ELSE a

\* stats[key] of validateData after the first k points of the series
RECURSIVE StatsOf(_, _)
StatsOf(series, k) ==
  IF k = 0 THEN [min |-> PosInf, max |-> NegInf]
  ELSE The({ [min |-> MathMin(prev.min, series[k].y),
              max |-> MathMax(prev.max, series[k].y)] :
               prev \in {StatsOf(series, k - 1)} })

\* validateData(data) throws: the minimum or the maximum of palmas, itu, ba
\* or ram is NaN
ValidateDataThrows(data) ==
  \E key \in {"palmas", "itu", "ba", "ram"} :
     \E st \in {StatsOf(data[key], Len(data[key]))} : st.min = NaN \/ st.max = NaN

\* series[0].x?.toISOString() throws: there is a first point and its date is
\* an Invalid Date
FirstPointLogThrows(data) ==
  \E key \in {"palmas", "itu", "vientos", "ram"} :
     data[key] # <<>> /\ data[key][1].x = NaN

\* main's try block throws, and its catch calls process.exit(1): loadAllData
\* threw, or the log of the first points, or validateData on either part
TryBlockThrows(result) ==
  \/ result.throws
  \/ FirstPointLogThrows(result.value.trainData)
  \/ ValidateDataThrows(result.value.trainData)
  \/ ValidateDataThrows(result.value.testData)

\* main from its start to the end of the try/catch around the load
MainLoad ==
  /\ pc = "load"
  /\ IF TryBlockThrows(LoadAllData(lInput))
     THEN pc' = "exit" /\ exitCode' = 1
     ELSE pc' = "spawn" /\ exitCode' = exitCode
  /\ UNCHANGED <<isDone, workers, totalProcessed, totalRelevant, listeners,
                 checkpoints, progress, memCleans, genVars, runVars, sinkVars,
                 mergeVars, modelVars, lInput, lOutput, gens, inbox, outbox,
                 threadVars, dispatched>>

\* ---------------------------------------------------- the load on its own
\* a point of a series, and of the wind series
Point(x, y) == [x |-> x, y |-> y]
\* what a data file can hold: nothing, one or two good points, a point with
\* a value that is NaN, a point with a date that does not parse
FileContents ==
  { <<>>,
    <<Point(Num(0), Num(20))>>,
    <<Point(Num(0), Num(20)), Point(Num(1000), Num(40))>>,
    <<Point(Num(0), Num(20)), Point(Num(1000), NaN)>>,
    <<Point(NaN, Num(20)), Point(Num(1000), Num(40))>> }

InitLoad ==
  /\ CONFIG = [maxWorkers |-> 1, chunkSize |-> 1, ranges |-> RangesOf(0)]
  /\ rngSeed = 0
  /\ trainData = 0
  /\ pc = "load"
  /\ isDone = FALSE
  /\ workers = [w \in {} |-> 0]
  /\ genPos = 0
  /\ genDone = FALSE
  /\ rngCalls = 0
  /\ totalProcessed = Num(0)
  /\ totalRelevant = Num(0)
  /\ inbox = [w \in Workers |-> <<>>]
  /\ outbox = [w \in Workers |-> <<>>]
  /\ listeners = [w \in Workers |-> 0]
  /\ listening = [w \in Workers |-> FALSE]
  /\ alive = [w \in Workers |-> FALSE]
  /\ writer = [w \in Workers |-> NewWriter]
  /\ checkpoints = <<>>
  /\ progress = 0
  /\ memCleans = 0
  /\ dispatched = <<>>
  /\ workLog = [w \in Workers |-> <<>>]
  /\ wInput = NoRecord
  /\ wWrites = 0
  /\ disk = <<>>
  /\ mergeLog = <<>>
  /\ mInput = NoCall
  /\ mOutput = NoCall
  /\ lInput \in [SeriesNames -> FileContents]
  /\ lOutput = NoCall
  /\ exitCode = -1
  /\ gens = <<>>

\* what no call of the load specification changes
LoadFrame ==
  UNCHANGED <<mainVars, genVars, runVars, sinkVars, mergeVars, modelVars, lInput,
              exitCode, gens, inbox, outbox, threadVars, dispatched>>

\* loadAllData from the test of ram.length on, on the five series as loaded
CallSplitData ==
  /\ pc = "load"
  /\ lOutput' = [op |-> "splitData", result |-> SplitData(lInput)]
  /\ LoadFrame

\* main's try block on what loadAllData makes of the five series as loaded
CallTryBlock ==
  /\ pc = "load"
  /\ lOutput' = [op |-> "try", exits |-> TryBlockThrows(SplitData(lInput))]
  /\ LoadFrame

NextLoad ==
  \/ MainLoad
  \/ CallSplitData
  \/ CallTryBlock

SpecLoad == InitLoad /\ [][NextLoad]_vars

\* ----------------------------------------------- the generator on its own
\* the ten base lists of CONFIG.ranges in the order of the nested loops
BaseLists ==
  << PesosPalmas, PesosItu, PesosBa, PesosVientos, LagsPalmas, LagsItu, LagsBa,
     LagsVientos, FactorViento, OffsetList >>

\* mutant: the loops nested the other way round, pesoPalmas varying fastest
AdvanceLoopsOuterFirst(ranges, idx) ==
  LET more == {d \in DOMAIN ranges : idx[d] < Len(ranges[d])}
  IN  IF more = {} THEN <<>>
      ELSE LET d == CHOOSE e \in more : \A f \in more : e <= f
           IN  [e \in DOMAIN ranges |->
                  IF e > d THEN idx[e] ELSE IF e = d THEN idx[e] + 1 ELSE 1]

\* The nested for loops go on from the positions idx of a yield: the
\* innermost loop that has an entry left takes it and the loops inside it
\* start again; <<>> when no loop has one, which ends the generator.
AdvanceLoops(ranges, idx) ==
  LET more == {d \in DOMAIN ranges : idx[d] < Len(ranges[d])}
  IN  IF more = {} THEN <<>>
      ELSE LET d == CHOOSE e \in more : \A f \in more : e >= f
           IN  [e \in DOMAIN ranges |->
                  IF e < d THEN idx[e] ELSE IF e = d THEN idx[e] + 1 ELSE 1]

\* the positions of the loops at the first yield; <<>> when a list is empty
\* and the loops end without a yield
FirstLoops(ranges) ==
  IF \E d \in DOMAIN ranges : ranges[d] = <<>> THEN <<>>
  ELSE [d \in DOMAIN ranges |-> 1]

\* the record yielded with the loops at the positions idx, its random draws
\* starting at call number c of the stream of seed
YieldedRecord(ranges, idx, seed, c) ==
  [col \in ParamCols |->
     IF col \in Range(BaseCols)
     THEN Num(The({ranges[d][idx[d]] : d \in {e \in DOMAIN BaseCols : BaseCols[e] = col}}))
     ELSE WindCoefs(seed, c)[col]]

\* generateParametersLazy(): a generator object before its first next()
NewGenerator(seed) ==
  [idx |-> <<>>, started |-> FALSE, done |-> FALSE, seed |-> seed, calls |-> 0,
   out |-> <<>>]

\* next() on a generator object that has not returned
GeneratorNext(ranges, g) ==
  LET idx == IF g.started THEN AdvanceLoops(ranges, g.idx) ELSE FirstLoops(ranges)
  IN  IF idx = <<>> THEN [g EXCEPT !.started = TRUE, !.done = TRUE]
      ELSE [g EXCEPT !.started = TRUE,
                     !.idx = idx,
                     !.calls = @ + DrawsPerRecord,
                     !.out = Append(@, YieldedRecord(ranges, idx, g.seed, g.calls))]

\* the ranges of a run of the generator specification: the first entry of
\* every list, and the first m and n entries of the lists a and b
RangesWith(a, m, b, n) ==
  [d \in DOMAIN BaseLists |->
     Prefix(BaseLists[d], IF d = a THEN m ELSE IF d = b THEN n ELSE 1)]

\* two generator objects are created, with different random streams
InitGen ==
  /\ \E a, b \in DOMAIN BaseLists : \E m, n \in 0..MaxListLen :
        /\ a < b
        /\ CONFIG = [maxWorkers |-> 1, chunkSize |-> 1,
                     ranges |-> RangesWith(a, m, b, n)]
  /\ rngSeed = 0
  /\ trainData = 0
  /\ pc = "generator"
  /\ isDone = FALSE
  /\ workers = [w \in {} |-> 0]
  /\ genPos = 0
  /\ genDone = FALSE
  /\ rngCalls = 0
  /\ totalProcessed = Num(0)
  /\ totalRelevant = Num(0)
  /\ inbox = [w \in Workers |-> <<>>]
  /\ outbox = [w \in Workers |-> <<>>]
  /\ listeners = [w \in Workers |-> 0]
  /\ listening = [w \in Workers |-> FALSE]
  /\ alive = [w \in Workers |-> FALSE]
  /\ writer = [w \in Workers |-> NewWriter]
  /\ checkpoints = <<>>
  /\ progress = 0
  /\ memCleans = 0
  /\ dispatched = <<>>
  /\ workLog = [w \in Workers |-> <<>>]
  /\ wInput = NoRecord
  /\ wWrites = 0
  /\ disk = <<>>
  /\ mergeLog = <<>>
  /\ mInput = NoCall
  /\ mOutput = NoCall
  /\ lInput = NoCall
  /\ lOutput = NoCall
  /\ exitCode = -1
  /\ gens = <<NewGenerator(0), NewGenerator(1)>>

\* paramsGenerator.next() on generator object i
GenNext(i) ==
  /\ pc = "generator"
  /\ ~gens[i].done
  /\ gens' = [gens EXCEPT ![i] = GeneratorNext(CONFIG.ranges, @)]
  /\ UNCHANGED <<mainVars, genVars, runVars, sinkVars, mergeVars, modelVars,
                 loadVars, inbox, outbox, threadVars, dispatched>>

NextGen == \E i \in DOMAIN gens : GenNext(i)

SpecGen == InitGen /\ [][NextGen]_vars

\* ---------------------------------------------------------------- claims
\* the places in the generator's sequence of all the records posted to workers
RECURSIVE AllIds(_)
AllIds(log) == IF log = <<>> THEN <<>> ELSE Head(log).ids \o AllIds(Tail(log))

DispatchedIds == Range(AllIds(dispatched))

\* the chunks a worker thread has been handed so far, oldest first: the ones
\* it has taken, then the ones waiting in its inbox
ReceivedBy(w) ==
  [i \in 1..Len(workLog[w]) |-> workLog[w][i].ids]
    \o [i \in 1..Len(inbox[w]) |-> ChunkIds(inbox[w][i])]

\* the chunks main has posted to worker w, oldest first
PostedTo(w) ==
  LET mine == SelectSeq(dispatched, LAMBDA d : d.worker = w)
  IN  [i \in 1..Len(mine) |-> mine[i].ids]

\* the number of chunks of worker w that main has posted and has had no
\* answer to yet
InFlight(w) == Len(inbox[w]) + Len(outbox[w])

\* main leaves the dispatch loop in this step
LeavesLoop == pc = "sleep" /\ pc' = "combine"

\* main handles the message at the head of w's outbox in this step
Handles(w) ==
  /\ outbox[w] # <<>>
  /\ outbox'[w] = Tail(outbox[w])
  /\ listeners[w] > 0

\* C1: when main leaves the dispatch loop and terminates the workers, the
\* processed deltas added to totalProcessed sum to the number M of parameter
\* sets the generator yields (every reply is a 'done' message here).
C1_DispatcherCompleteness ==
  [][LeavesLoop => totalProcessed' = Num(GenCount(CONFIG.ranges) * 1000)]_vars

\* C2: when main leaves the dispatch loop, no worker is busy: every chunk
\* that was dispatched has been handled by its worker and its completion
\* message has been handled by main.
C2_NoChunkOutstandingAtExit ==
  [][LeavesLoop => \A w \in Workers :
                     ~workers[w].isBusy /\ inbox[w] = <<>> /\ outbox[w] = <<>>]_vars

\* C3: no parameter set pulled from the generator is discarded: every record
\* the generator has yielded is in a chunk posted to a worker, also the
\* k < chunkSize records of a final partial chunk.
C3_PartialChunkDispatched ==
  \A i \in 1..genPos : i \in DispatchedIds

\* C4: every parameter set is in at most one dispatched chunk, and every
\* dispatched chunk reaches exactly one worker exactly once: what each worker
\* has been handed is what main posted to it, chunk for chunk, and no chunk
\* is posted again, also not after an 'error' message.
C4_NoDuplicateDispatch ==
  /\ Cardinality(DispatchedIds) = Len(AllIds(dispatched))
  /\ \A w \in Workers : ReceivedBy(w) = PostedTo(w)

\* a run in which a chunk was answered by an 'error' message, the worker was
\* given a later chunk, and main has left the loop with two or more chunks
\* dispatched
C4_Witness ==
  /\ pc = "combine"
  /\ Len(dispatched) >= 2
  /\ \E w \in Workers : /\ Len(workLog[w]) >= 2
                        /\ workLog[w][1].replies[1].type = "error"

\* C5: each worker has at most one chunk in flight; a chunk is sent only to a
\* worker whose isBusy flag is false, and the flag is true once it is sent;
\* the flag is cleared only when main handles a message of that worker; and
\* when no worker is idle, assignWork takes nothing from the generator.
C5_OneChunkInFlight ==
  /\ [](\A w \in Workers : InFlight(w) <= 1)
  /\ [][\A w \in DOMAIN workers :
          /\ Len(inbox'[w]) > Len(inbox[w])
               => ~workers[w].isBusy /\ workers'[w].isBusy
          /\ workers[w].isBusy /\ ~workers'[w].isBusy => Handles(w)]_vars
  /\ [][(DOMAIN workers # {} /\ \A w \in Workers : workers[w].isBusy)
          => genPos' = genPos /\ rngCalls' = rngCalls]_vars

\* two workers, each busy with one chunk in flight, and assignWork has run
\* and found no idle worker
C5_Witness ==
  /\ CONFIG.maxWorkers = 2
  /\ pc = "sleep"
  /\ ~isDone
  /\ DOMAIN workers = Workers
  /\ \A w \in Workers : workers[w].isBusy /\ InFlight(w) = 1
  /\ genPos < GenCount(CONFIG.ranges)

\* C6: totalProcessed and totalRelevant are numbers that never decrease.
C6_CountersMonotoneNumbers ==
  [][/\ totalProcessed'.t = "num" /\ totalProcessed'.n >= totalProcessed.n
     /\ totalRelevant'.t = "num" /\ totalRelevant'.n >= totalRelevant.n]_vars

\* the names results_<n>.csv of the files a worker's writer has opened
FilesOf(w) == {writer[w].files[i].n : i \in DOMAIN writer[w].files}

\* C7: no partial file results_<n>.csv is opened by more than one worker.
C7_ExclusiveFiles ==
  \A w1, w2 \in Workers : w1 # w2 => FilesOf(w1) \cap FilesOf(w2) = {}

\* C8: when main handles a message of type 'error', the worker is idle
\* afterwards, totalProcessed, totalRelevant and the worker's own counters
\* are unchanged, no chunk is posted, the pool is the same, and main stays in
\* its dispatch loop.
C8_ErrorMessageHandling ==
  [][\A w \in Workers :
       (Handles(w) /\ Head(outbox[w]).type = "error") =>
          /\ ~workers'[w].isBusy
          /\ totalProcessed' = totalProcessed
          /\ totalRelevant' = totalRelevant
          /\ workers'[w].processed = workers[w].processed
          /\ workers'[w].relevant = workers[w].relevant
          /\ inbox' = inbox
          /\ dispatched' = dispatched
          /\ DOMAIN workers' = DOMAIN workers
          /\ alive' = alive
          /\ checkpoints' = checkpoints
          /\ pc' = pc
          /\ isDone' = isDone]_vars

\* a worker whose first chunk was answered by an 'error' message has been
\* given a later chunk, and the counters have gone up by the later chunks only
C8_Witness ==
  \E w \in Workers :
    /\ Len(workLog[w]) >= 2
    /\ workLog[w][1].replies[1].type = "error"
    /\ workLog[w][2].replies[1].type = "done"
    /\ totalProcessed.t = "num"
    /\ totalProcessed.n > 0
    /\ pc = "sleep"

\* the sum of k - e over the chunks of a log
RECURSIVE ExpectedRows(_)
ExpectedRows(log) ==
  IF log = <<>> THEN 0 ELSE Head(log).k - Head(log).e + ExpectedRows(Tail(log))

\* C9: for every chunk of k parameter sets of which e throw, the worker
\* writes k - e rows, whatever the metrics of the others, and posts exactly
\* one message, of type 'done'; nothing else reaches main.
C9_PerRecordContainment ==
  \A w \in Workers :
    /\ Len(RowsOfFiles(writer[w].files)) = ExpectedRows(workLog[w])
    /\ \A i \in DOMAIN workLog[w] :
         /\ Len(workLog[w][i].replies) = 1
         /\ workLog[w][i].replies[1] = DoneMessage(workLog[w][i].k)
    /\ \A i \in DOMAIN outbox[w] : outbox[w][i].type = "done"

\* a worker has handled a chunk of two sets of which the first threw and the
\* second missed the thresholds, and has handled a later chunk too
C9_Witness ==
  \E w \in Workers :
    /\ Len(workLog[w]) >= 2
    /\ \E i \in DOMAIN workLog[w] :
         workLog[w][i].k = 2 /\ workLog[w][i].e = 1 /\ workLog[w][i].poor = 1
    /\ Len(RowsOfFiles(writer[w].files)) >= 2

\* the text the claim gives column i (from 1) of a row when its field is absent
DefaultText(i) ==
  IF i <= 10 THEN "0"
  ELSE IF i <= 26 THEN (IF i % 2 = 1 THEN "0" ELSE "0.5")
  ELSE IF i <= 28 THEN "-Infinity"
  ELSE "Infinity"

\* C10: every row write() emits for a record has 30 values separated by
\* semicolons, in header order: the text of the field when the record has
\* it, the default of the column when it has not.
C10_SinkNormalization ==
  \A r \in Range(RowsOfFiles(writer[0].files)) :
    LET fields == SplitSemi(r)
    IN  /\ Len(fields) = 30
        /\ Len(HeaderCols) = 30
        /\ \A i \in 1..30 :
             fields[i] = IF wInput[HeaderCols[i]] # Undefined
                         THEN JsString(wInput[HeaderCols[i]])
                         ELSE DefaultText(i)

\* two writes have been made of a record that lacks a peso field and has a
\* zero in every other field
C10_Witness ==
  /\ wWrites = 2
  /\ Len(RowsOfFiles(writer[0].files)) >= 2
  /\ wInput["coef_SE_peso"] = Undefined
  /\ wInput["coef_SE_factor"] = Num(0)
  /\ wInput["trainR2"] = Num(0)

\* the writer of the writer specification and the file it has open
SinkWriter == writer[0]
SinkFile == SinkWriter.files[SinkWriter.currentFile]

\* C11: a write() that appends a batch to a file which already holds a batch
\* leaves that file no larger than maxFileSize: when the batch would take the
\* file over the limit, write() opens a new file first.
C11_SinkRotation ==
  [][(/\ wWrites' = wWrites + 1
      /\ SinkWriter.currentFile # 0
      /\ RowsOfFile(SinkFile) # <<>>
      /\ writer'[0].fileIndex = SinkWriter.fileIndex)
       => writer'[0].currentSize <= maxFileSize]_vars

\* C12: the files of one ResultWriter are results_1.csv, results_2.csv, ...,
\* the index growing by one with each file opened; every file but the current
\* one is closed; every file begins with the header, which occurs once, and
\* holds data rows after it; currentSize is the number of bytes written to
\* the current file since it was opened.
C12_PartialFileSequence ==
  /\ [](/\ SinkWriter.fileIndex = Len(SinkWriter.files)
        /\ SinkWriter.currentFile = Len(SinkWriter.files)
        /\ \A i \in DOMAIN SinkWriter.files :
             LET f == SinkWriter.files[i]
             IN  /\ f.n = i
                 /\ f.closed <=> i < SinkWriter.currentFile
                 /\ f.data # <<>>
                 /\ f.data[1] = HeaderLine
                 /\ \A j \in 2..Len(f.data) :
                      f.data[j] # HeaderLine /\ Len(SplitSemi(f.data[j])) = 30
        /\ SinkWriter.currentSize =
             IF SinkWriter.currentFile = 0 THEN 0 ELSE ByteLength(SinkFile.data))
  /\ [][writer'[0].fileIndex \in {SinkWriter.fileIndex, SinkWriter.fileIndex + 1}]_vars

\* two writes have been made, the second of which went to a second file: the
\* first file is closed and both hold the header and data rows
C12_Witness ==
  /\ wWrites = 2
  /\ Len(SinkWriter.files) = 2
  /\ SinkWriter.files[1].closed
  /\ \A i \in 1..2 : RowsOfFile(SinkWriter.files[i]) # <<>>

\* the numbers n of the partial files results_<n>.csv of the directory
PartialNumbers ==
  {p.num : p \in {q \in DOMAIN disk : q.dir = ResultsDir /\ q.stem = "results_"
                                       /\ q.ext = ".csv"}}

\* a line with nothing on it but whitespace counts as empty
IsEmptyLine(l) == \A i \in DOMAIN l : l[i] \in {"", " "}
IsHeaderLine(l) == l \o <<"\n">> = HeaderLine

\* the lines of the partial files that are neither empty nor the header,
\* the files taken by ascending number from n on, each file's lines in order
RECURSIVE InputLinesFrom(_)
InputLinesFrom(n) ==
  IF \A m \in PartialNumbers : m < n THEN <<>>
  ELSE (IF n \in PartialNumbers
        THEN SelectSeq(SplitLines(disk[PartialPath(n)]),
                       LAMBDA l : ~IsEmptyLine(l) /\ ~IsHeaderLine(l))
        ELSE <<>>) \o InputLinesFrom(n + 1)
InputLines == InputLinesFrom(0)

\* the rows of the final file a run has written: its lines after the first
RowsWritten(run) ==
  [j \in 1..(Len(run.file) - 1) |-> SubSeq(run.file[j + 1], 1, Len(run.file[j + 1]) - 1)]

\* C13: every run of combineResults writes the header once, as the first
\* line, and then one row for every line of the partial files that is neither
\* empty nor the header, the files by ascending number and the lines in their
\* order (row j carries the fields present in input line j); the number it
\* returns is the number of rows written.
C13_MergerOrderAndCount ==
  \A r \in DOMAIN mergeLog :
    LET run == mergeLog[r]
        rows == RowsWritten(run)
    IN  /\ run.file[1] = HeaderLine
        /\ \A j \in DOMAIN rows : ~IsHeaderLine(rows[j])
        /\ Len(rows) = Len(InputLines)
        /\ run.count = Len(rows)
        /\ \A j \in DOMAIN rows :
             LET in == SplitSemi(InputLines[j])
                 out == SplitSemi(rows[j])
             IN  \A i \in 1..Len(out) :
                   (i <= Len(in) /\ in[i] \notin {"", " "}) => out[i] = in[i]

\* a run on a directory that holds results_2.csv and results_10.csv, each
\* with a row, and three rows or more in all
C13_Witness ==
  /\ mergeLog # <<>>
  /\ {2, 10} \subseteq PartialNumbers
  /\ \A n \in {2, 10} :
       \E l \in Range(SplitLines(disk[PartialPath(n)])) :
         ~IsEmptyLine(l) /\ ~IsHeaderLine(l)
  /\ mergeLog[1].count >= 3

\* C14: every row combineResults writes has 30 fields; field i is the field
\* i of the input line when the line has one that is not blank, the default
\* of column i otherwise; what an input line has beyond 30 fields is dropped.
C14_MergerNormalization ==
  \A r \in DOMAIN mergeLog :
    LET rows == RowsWritten(mergeLog[r])
    IN  \A j \in DOMAIN rows :
          LET in == SplitSemi(InputLines[j])
              out == SplitSemi(rows[j])
          IN  /\ Len(out) = 30
              /\ \A i \in 1..30 :
                   out[i] = IF i <= Len(in) /\ in[i] \notin {"", " "}
                            THEN in[i] ELSE DefaultText(i)

\* a run has merged a line of 3 fields, a line of 32 fields and a line with
\* blank fields
C14_Witness ==
  /\ mergeLog # <<>>
  /\ \E j \in DOMAIN InputLines : Len(SplitSemi(InputLines[j])) = 3
  /\ \E j \in DOMAIN InputLines : Len(SplitSemi(InputLines[j])) = 32
  /\ \E j \in DOMAIN InputLines :
       LET in == SplitSemi(InputLines[j])
       IN  Len(in) = 30 /\ in[2] = "" /\ in[12] = " "

\* C15: a second run of combineResults on the same partial files writes the
\* same final file and returns the same number as the first; the final file
\* is none of the files a run reads, and no run changes a partial file.
C15_MergerIdempotence ==
  /\ [](/\ \A r \in DOMAIN mergeLog : mergeLog[r] = mergeLog[1]
        /\ mergeLog # <<>> => disk[FinalPath] = mergeLog[1].file
        /\ FinalPath \notin Range(PartialFiles(disk)))
  /\ [][\A p \in DOMAIN disk : p # FinalPath => p \in DOMAIN disk' /\ disk'[p] = disk[p]]_vars

\* combineResults has run twice on a directory whose files give two rows or more
C15_Witness ==
  /\ Len(mergeLog) = 2
  /\ mergeLog[1].count >= 2
  /\ FinalPath \in DOMAIN disk

\* the distance in time of point i of the series from the query date
TimeDistance(i) ==
  LET d == mInput.series[i].x.n - mInput.query.n
  IN  IF d < 0 THEN 0 - d ELSE d

\* the point of the series nearest in time to the query date, the first of
\* them when several are equally near
NearestPoint ==
  CHOOSE i \in DOMAIN mInput.series :
    \A j \in DOMAIN mInput.series :
      /\ TimeDistance(i) <= TimeDistance(j)
      /\ j < i => TimeDistance(j) > TimeDistance(i)

\* C16: for a series that is not empty and a valid date, also one that is
\* the date of a sample, findClosestValue returns the value of the nearest
\* sample, the first scanned of the nearest ones.
\* So with lag 0 (the ba component) and a sample at the target's own time,
\* the component is the weight times the value of that sample.
C16_NearestNeighbourLookup ==
  /\ (/\ mOutput.op = "findClosestValue"
      /\ mInput.series # <<>>
      /\ mInput.query.t = "num")
       => mOutput.value = mInput.series[NearestPoint].y
  /\ (/\ mOutput.op = "calculateComponent"
      /\ mInput.query.t = "num"
      /\ mInput.params["lagBa"] = Num(0)
      /\ \E i \in DOMAIN mInput.series : mInput.series[i].x = mInput.query)
       => mOutput.result =
            Returned(JsMul(mInput.series[NearestPoint].y, mInput.params["pesoBa"]))

\* the wind sample nearest in time to the target's time less the wind lag,
\* the first of them when several are equally near
NearestWind ==
  LET t == mInput.query.n - mInput.params["lagVientos"].n
      dist(i) == IF mInput.series[i].x.n < t THEN t - mInput.series[i].x.n
                 ELSE mInput.series[i].x.n - t
  IN  CHOOSE i \in DOMAIN mInput.series :
        \A j \in DOMAIN mInput.series :
          dist(i) <= dist(j) /\ (j < i => dist(j) > dist(i))

\* the wind contribution of the call: speed x coefficient[direction] x
\* windFactor of the nearest wind sample, 0 when there is none or the
\* target's date is invalid
ExpectedWind ==
  IF mInput.query.t # "num" \/ mInput.series = <<>> THEN Num(0)
  ELSE LET w == WindSeries(mInput.series)[NearestWind]
       IN  JsMul(JsMul(w.speed, mInput.params[FactorCol(w.direction)]),
                 mInput.params["factorViento"])

\* the three weighted components of the call, each the weight times the
\* value findClosestValue gives at the target's time less the lag
ExpectedComponent(source, weight, lag) ==
  JsMul(FindClosestValue(InputData[source],
                         NewDate(JsSub(mInput.query, mInput.params[lag]))),
        mInput.params[weight])

\* C17: predict never throws and returns a finite number, the sum of the
\* palmas, itu and ba components, the wind contribution and the offset.
C17_PredictIsFiniteSum ==
  mOutput.op = "predict" =>
    /\ ~mOutput.result.throws
    /\ mOutput.result.value.t = "num"
    /\ mOutput.result.value =
         JsAdd(JsAdd(JsAdd(JsAdd(ExpectedComponent("palmas", "pesoPalmas", "lagPalmas"),
                                 ExpectedComponent("itu", "pesoItu", "lagItu")),
                           ExpectedComponent("ba", "pesoBa", "lagBa")),
                     ExpectedWind),
               mInput.params["offset"])

\* C18: calculateWindComponent returns a number: speed x coefficient x
\* windFactor of the wind sample nearest to the target's time less the wind
\* lag, and 0 when there is no sample or the target's date is invalid.
C18_WindContribution ==
  mOutput.op = "calculateWindComponent" =>
    /\ mOutput.value.t = "num"
    /\ mOutput.value = ExpectedWind

\* the values of a sequence are all the same
IsConstant(values) == \A i, j \in DOMAIN values : values[i] = values[j]

\* C19: for non-empty observations and as many predictions, calculateMetrics
\* returns rmse 0 and r2 1 when the predictions are the observations and
\* the observations are not constant, and r2 0 when the observations are
\* constant, whatever the predictions.
C19_MetricsOnNonEmptyInput ==
  (mOutput.op = "calculateMetrics" /\ mInput.observations # <<>>) =>
    /\ (mInput.predictions = mInput.observations /\ ~IsConstant(mInput.observations))
         => (mOutput.metrics.rmse = Num(0) /\ mOutput.metrics.r2 = Num(1000))
    /\ IsConstant(mInput.observations) => mOutput.metrics.r2 = Num(0)

C19_Witness ==
  /\ mOutput.op = "calculateMetrics"
  /\ Len(mInput.observations) = MaxPoints
  /\ ~IsConstant(mInput.observations)
  /\ mInput.predictions = mInput.observations
  /\ mOutput.metrics.r2 = Num(1000)

\* C20: with no observation calculateMetrics returns r2 0 and rmse
\* +Infinity; evaluate on an empty target returns the same, and the row the
\* handler pushes for the parameter set has trainR2 0 and trainRmse +Infinity.
C20_MetricsOnEmptyInput ==
  /\ (mOutput.op = "calculateMetrics" /\ mInput.observations = <<>>)
       => (mOutput.metrics.r2 = Num(0) /\ mOutput.metrics.rmse = PosInf)
  /\ (mOutput.op = "evaluate" /\ mInput.nTarget = 0)
       => /\ ~mOutput.result.throws
          /\ mOutput.result.r2 = Num(0)
          /\ mOutput.result.rmse = PosInf
          /\ Len(mOutput.pushed) = 1
          /\ mOutput.pushed[1].trainR2 = Num(0)
          /\ mOutput.pushed[1].trainRmse = PosInf

C20_Witness ==
  /\ mOutput.op = "evaluate"
  /\ mInput.nTarget = 0
  /\ mInput.series # <<>>
  /\ Len(mOutput.pushed) = 1
  /\ mOutput.pushed[1].trainRmse = PosInf

\* the target series cannot be loaded, or it is empty
RamUnavailable == lInput.ram = <<>>

\* C21: main exits with status 1 before any worker is spawned when the
\* target series cannot be loaded or is empty, and for no other reason:
\* neither main nor its try block ends in process.exit when ram is there.
C21_FatalErrors ==
  /\ (RamUnavailable /\ pc # "load")
       => (pc = "exit" /\ exitCode = 1 /\ \A w \in Workers : ~alive[w])
  /\ pc = "exit" => RamUnavailable
  /\ (lOutput.op = "try" /\ lOutput.exits) => RamUnavailable

\* every series is there, the target is not empty, no date and no value is NaN
ValidInputs ==
  /\ lInput.ram # <<>>
  /\ \A k \in SeriesNames : \A i \in DOMAIN lInput[k] :
        lInput[k][i].x # NaN /\ lInput[k][i].y # NaN

\* C28: when all series are available and valid, main does not exit during
\* the load: it goes on to create the pool, with totalProcessed and
\* totalRelevant 0.
C28_StartUpReachability ==
  (ValidInputs /\ pc # "load") =>
     /\ pc = "spawn"
     /\ exitCode = -1
     /\ totalProcessed = Num(0)
     /\ totalRelevant = Num(0)

\* C22: when every worker answers every chunk it receives, main leaves the
\* dispatch loop in the end, with the generator exhausted, whatever the
\* number of workers, the chunk size and the number of parameter sets.
C22_RunTermination == <>(pc = "combine" /\ genDone)

C22_Witness ==
  /\ pc = "combine"
  /\ genDone
  /\ CONFIG.maxWorkers = MaxWorkers
  /\ CONFIG.chunkSize = MaxChunk
  /\ GenCount(CONFIG.ranges) = 2 * MaxChunk
  /\ Len(dispatched) = 2

\* the record the generator yields at place id (from 1) in its sequence
RecordAt(id) ==
  ParameterSet(CONFIG.ranges, id - 1, rngSeed, DrawsPerRecord * (id - 1))

\* the lines of the records at the places ids that evaluate without a throw,
\* in the order of ids
RECURSIVE LinesOfIds(_)
LinesOfIds(ids) ==
  IF ids = <<>> THEN <<>>
  ELSE (IF Evaluate(trainData, RecordAt(Head(ids))).throws THEN <<>>
        ELSE <<CsvLine(EvaluationResult(RecordAt(Head(ids)),
                                        Evaluate(trainData, RecordAt(Head(ids)))))>>)
       \o LinesOfIds(Tail(ids))

\* the rows of the files of worker w, each with its line end
WorkerLines(w) ==
  LET rows == RowsOfFiles(writer[w].files)
  IN  [j \in DOMAIN rows |-> rows[j] \o <<"\n">>]

\* C23: the rows a worker has written are the rows of the chunks it has
\* processed, chunk after chunk in the order it processed them and in the
\* order of the parameter sets within a chunk, which is the generator's order.
C23_RowOrderWithinWorker ==
  \A w \in Workers :
    LET ids == AllIds(workLog[w])
    IN  /\ WorkerLines(w) = LinesOfIds(ids)
        /\ \A i, j \in DOMAIN ids : i < j => ids[i] < ids[j]

\* a worker has processed two chunks and has written two rows of one of
\* them and a row of the other
C23_Witness ==
  \E w \in Workers :
    /\ Len(workLog[w]) = 2
    /\ \E i \in DOMAIN workLog[w] : workLog[w][i].k - workLog[w][i].e = 2
    /\ Len(WorkerLines(w)) >= 3

\* the product of the sizes of the ten base lists
RECURSIVE SizeProduct(_)
SizeProduct(lists) ==
  IF lists = <<>> THEN 1 ELSE Len(Head(lists)) * SizeProduct(Tail(lists))

\* the place of the value of base field d of a record in its list
PlaceOf(record, d) ==
  CHOOSE i \in DOMAIN CONFIG.ranges[d] :
     Num(CONFIG.ranges[d][i]) = record[BaseCols[d]]

\* record r comes before record s in the nested product: they agree on the
\* fields before some field d, and r has the earlier entry of list d
ComesBefore(r, s) ==
  \E d \in DOMAIN BaseCols :
     /\ \A e \in 1..(d - 1) : r[BaseCols[e]] = s[BaseCols[e]]
     /\ PlaceOf(r, d) < PlaceOf(s, d)

\* the base fields of a record
BaseOf(record) == [d \in DOMAIN BaseCols |-> record[BaseCols[d]]]

\* C24: a generator object yields the records of the nested product of the
\* ten base lists in the order of the loops, the offset varying fastest and
\* no combination twice, as many as the product of the sizes when it has
\* returned; two objects yield the same base fields whatever their draws.
C24_GeneratorDeterminism ==
  /\ \A g \in DOMAIN gens :
       /\ Len(gens[g].out) <= SizeProduct(CONFIG.ranges)
       /\ gens[g].done => Len(gens[g].out) = SizeProduct(CONFIG.ranges)
       /\ \A j \in DOMAIN gens[g].out :
            \A d \in DOMAIN BaseCols :
               \E i \in DOMAIN CONFIG.ranges[d] :
                  gens[g].out[j][BaseCols[d]] = Num(CONFIG.ranges[d][i])
       /\ \A j \in 1..(Len(gens[g].out) - 1) :
            ComesBefore(gens[g].out[j], gens[g].out[j + 1])
  /\ \A g, h \in DOMAIN gens :
       \A j \in DOMAIN gens[g].out :
          j \in DOMAIN gens[h].out => BaseOf(gens[g].out[j]) = BaseOf(gens[h].out[j])

\* both objects have returned after MaxListLen * MaxListLen records, of which
\* some differ in their random fields
C24_Witness ==
  /\ \A g \in DOMAIN gens : gens[g].done
  /\ Len(gens[1].out) = MaxListLen * MaxListLen
  /\ \E j \in DOMAIN gens[1].out : gens[1].out[j] # gens[2].out[j]

\* the step takes totalProcessed to or past a further multiple of interval
PassesMultiple(interval) ==
  /\ totalProcessed.t = "num" /\ totalProcessed'.t = "num"
  /\ totalProcessed'.n \div (interval * 1000) > totalProcessed.n \div (interval * 1000)

\* C25: whenever a completion handler takes totalProcessed to or past a
\* further multiple of memoryCleanInterval, progressInterval or
\* checkpointInterval, it enters the memory clean, prints the progress or
\* writes a checkpoint with the totalProcessed and totalRelevant it has set.
C25_CadenceOfSideEffects ==
  [][/\ PassesMultiple(memoryCleanInterval) => memCleans' = memCleans + 1
     /\ PassesMultiple(progressInterval) => progress' = progress + 1
     /\ PassesMultiple(checkpointInterval) =>
          checkpoints' = Append(checkpoints, [totalProcessed |-> totalProcessed',
                                              totalRelevant |-> totalRelevant'])]_vars

\* the records the handler pushed in the call of evaluate just made
Pushed == IF mOutput.op = "evaluate" THEN mOutput.pushed ELSE <<>>

\* the texts of the four metric columns in the line write() makes of a record
MetricTexts(rec) ==
  LET line == CsvLine(rec)
      fields == SplitSemi(SubSeq(line, 1, Len(line) - 1))
  IN  [i \in 1..4 |-> fields[Len(BaseCols) + Len(CoefCols) + i]]

\* C26: in every row a worker produces, trainR2 and testR2 are a finite number
\* or -Infinity and trainRmse and testRmse are a finite number or +Infinity; a
\* metric evaluate returned that is not finite is replaced by the sentinel,
\* and no metric is written as NaN.
C26_SentinelMetrics ==
  \A i \in DOMAIN Pushed :
    LET rec == Pushed[i]
        oc == mOutput.result
    IN  /\ \A col \in {"trainR2", "testR2"} :
             /\ IsFinite(rec[col]) \/ rec[col] = NegInf
             /\ ~IsFinite(oc.r2) => rec[col] = NegInf
        /\ \A col \in {"trainRmse", "testRmse"} :
             /\ IsFinite(rec[col]) \/ rec[col] = PosInf
             /\ ~IsFinite(oc.rmse) => rec[col] = PosInf
        /\ \A k \in 1..4 : MetricTexts(rec)[k] # "NaN"
        /\ MetricTexts(rec)[1] # "Infinity" /\ MetricTexts(rec)[2] # "Infinity"
        /\ MetricTexts(rec)[3] # "-Infinity" /\ MetricTexts(rec)[4] # "-Infinity"

\* evaluate has returned NaN for both metrics and the handler has pushed a
\* record with the sentinels in their place
C26_Witness ==
  /\ Len(Pushed) = 1
  /\ mOutput.result.r2 = NaN
  /\ mOutput.result.rmse = NaN
  /\ MetricTexts(Pushed[1]) = <<"-Infinity", "-Infinity", "Infinity", "Infinity">>

\* C27: in every row a worker produces, testR2 equals trainR2 and testRmse
\* equals trainRmse: both pairs are made from the r2 and the rmse of the one
\* evaluation on the training data.
C27_TestMetricsCopyTrain ==
  \A i \in DOMAIN Pushed :
    LET rec == Pushed[i]
    IN  /\ rec["testR2"] = rec["trainR2"]
        /\ rec["testRmse"] = rec["trainRmse"]
        /\ MetricTexts(rec)[2] = MetricTexts(rec)[1]
        /\ MetricTexts(rec)[4] = MetricTexts(rec)[3]

\* evaluate has returned a finite r2 and an infinite rmse, and the record the
\* handler pushed has them in the train and in the test columns
C27_Witness ==
  /\ Len(Pushed) = 1
  /\ IsFinite(mOutput.result.r2)
  /\ Pushed[1]["trainR2"] = mOutput.result.r2
  /\ Pushed[1]["testR2"] = mOutput.result.r2
  /\ Pushed[1]["testRmse"] = PosInf
  /\ MetricTexts(Pushed[1])[2] = JsString(mOutput.result.r2)

====
